---- MODULE Spec2Model ----
(***************************************************************************)
(* Model of the mongo_odm / motor_odm object-document mapper: the query    *)
(* managers (builders), the document lifecycle operations save / reload /  *)
(* delete, and the materializer `construct`, over one collection of a      *)
(* MongoDB-like store.                                                     *)
(*                                                                         *)
(* Python values are modelled as strings: NULL is Python's None, ABSENT    *)
(* marks a key a mapping does not carry.  A Python dict is a function      *)
(* whose DOMAIN is its key set.  An Optional[int] is an integer with       *)
(* NoInt standing for None.                                                *)
(***************************************************************************)
EXTENDS Integers, Sequences, FiniteSets, TLC

NULL == "NULL"
ABSENT == "ABSENT"
NoInt == -1

\* managers.py: _ID = "_id", ID = "id"
WireId == "_id"
ID == "id"

----------------------------------------------------------------------------
(* Bounds *)

\* skip(n) and limit(n) are called with n in 1..MaxPage
MaxPage == 1
\* the store generates at most MaxNew fresh identifiers
MaxNew == 1

----------------------------------------------------------------------------
(* The document type used throughout: the shape of the test documents      *)
(*   class Person(MongoDocument):                                          *)
(*       name: str                                                         *)
(*       age: Optional[int] = <a0>                                         *)
(*       custom_manager = MongoBaseManager()                               *)
(* plus the inherited  id: Optional[PrimaryID] = Field(alias="_id").       *)
(* The manager-valued field holds the same manager on every instance and   *)
(* is not part of a document's state.                                      *)

DataFields == {"name", "age"}
DeclaredFields == {ID} \cup DataFields
\* __manager_field_names__, and the value such a field holds
ManagerFieldNames == {"custom_manager"}
MANAGER == "MANAGER"
\* declaration order, which is the order of dict() and of stored keys
FieldOrder == <<"id", "name", "age">>
\* non-null values each data field takes in the explored runs
FieldValues == [f \in DataFields |-> IF f = "name" THEN {"n0"} ELSE {"a0", "a1"}]

\* pydantic's ModelField for each declared field: alias (wire key),
\* required flag, default returned by get_default(), allow_none
Schema ==
  [f \in DeclaredFields |->
     CASE f = "id"   -> [alias |-> WireId, required |-> FALSE, default |-> NULL, allow_none |-> TRUE]
       [] f = "name" -> [alias |-> "name", required |-> TRUE,  default |-> NULL, allow_none |-> FALSE]
       [] f = "age"  -> [alias |-> "age",  required |-> FALSE, default |-> "a0", allow_none |-> TRUE]]

WireKeys == {Schema[f].alias : f \in DeclaredFields}

----------------------------------------------------------------------------
(* Python dict helpers *)

EmptyDict == [k \in {} |-> 0]

\* d[k] = v for every k in keys
DictSetAll(d, keys, v) ==
  [k \in (DOMAIN d) \cup keys |-> IF k \in keys THEN v ELSE d[k]]

----------------------------------------------------------------------------
VARIABLES
  managers,   \* mongo_odm query managers held by the application, by reference name
  motor,      \* the motor_odm query manager bound to the document type (one object)
  outcome,    \* what the last call returned or raised
  storage,    \* the collection: sequence of stored records in natural order
  docs,       \* document instances held by the application
  nextId,     \* number of identifiers the store has generated
  result,     \* documents returned by the last read terminal operation
  saves,      \* per document: successful save() calls since its identifier
              \* was last set by the application (counted up to 2)
  config,     \* mongo_odm.config: the module globals _motor_client and _db_name
  closed,     \* the clients on which close() has been called
  configured, \* whether some configure call has returned
  declared,   \* the document classes declared so far
  registry,   \* mongo_odm.registry.DOCUMENTS_REGISTRY: class name to class
  tasks       \* the application's concurrent tasks: where each one stands
              \* and what it holds in its local variables

vars == <<managers, motor, outcome, storage, docs, nextId, result, saves,
          config, closed, configured, declared, registry, tasks>>
\* the module-level state of mongo_odm (config, the declared classes, the
\* registry) and the application's tasks
envVars == <<config, closed, configured, declared, registry, tasks>>
builderVars == <<managers, motor>>
storeVars == <<storage, docs, nextId, result, saves>>

----------------------------------------------------------------------------
(* mongo_odm.managers.MongoBaseQueryManager *)

\* projection: Optional[Dict[str, int]]; `none` is TRUE for Python None
NoProjection == [none |-> TRUE, dict |-> EmptyDict]

\* __init__: _document_class is not set yet
QueryManager ==
  [filter |-> EmptyDict, limit |-> NoInt, skip |-> NoInt,
   projected_fields |-> NoProjection, document_class |-> NULL]

\* add_to_class(document_class)
AddToClass(self, document_class) == [self EXCEPT !.document_class = document_class]

\* the manager the declaration of Person creates: __init__ followed by
\* add_to_class(Person)
NewManager == AddToClass(QueryManager, "Person")

\* _clone forgetting to copy _skip
CloneDroppingSkip(self) ==
  [filter |-> self.filter, limit |-> self.limit, skip |-> NoInt,
   projected_fields |-> self.projected_fields,
   document_class |-> self.document_class]

\* _clone: a new manager carrying copies of the receiver's fields
Clone(self) ==
  [filter |-> self.filter, limit |-> self.limit, skip |-> self.skip,
   projected_fields |-> self.projected_fields,
   document_class |-> self.document_class]

\* `new_manager._projected_fields or {}` followed by the loop setting flag
ProjectionWith(p, fields, flag) ==
  [none |-> FALSE,
   dict |-> DictSetAll(IF p.none THEN EmptyDict ELSE p.dict, fields, flag)]

\* references the application holds: Person's default builder, the base of
\* a chain, the builder returned by the latest call on a base, the manager
\* of Person's class attribute custom_manager, and the default builder of
\* the document class Other, which exists once Other is declared
Refs == {"objects", "base", "chained", "custom_manager", "other_objects"}
\* at most MaxArgs names are passed to one only(...) / exclude(...) call
MaxArgs == 2
\* names the application passes to only(...) / exclude(...) when only the
\* builder state is explored: the identifier by its field name, a declared
\* field, and a name the document type does not declare
FieldArgs == {"id", "name", "bogus"}
\* keyword mappings the application passes to filter(...)
FilterArgs ==
  {EmptyDict} \cup UNION {{[k \in {f} |-> v] : v \in FieldValues[f]} : f \in DataFields}

\* the record of a call: what was called on which reference with which
\* field names and keyword arguments, the exception it raised ("none" when
\* it returned) and the path it took through the code
ReturnedBy(op, gen, r, t, fields, path) ==
  [op |-> op, gen |-> gen, on |-> r, to |-> t, fields |-> fields,
   kwargs |-> EmptyDict, raised |-> "none", path |-> path]
Returned(op, gen, r, t, fields) == ReturnedBy(op, gen, r, t, fields, "")
Raised(op, gen, r, t, fields, exc) ==
  [op |-> op, gen |-> gen, on |-> r, to |-> t, fields |-> fields,
   kwargs |-> EmptyDict, raised |-> exc, path |-> ""]

\* t = r.only(*fields)
only(r, t, fields) ==
  /\ managers' = [managers EXCEPT ![t] =
        [Clone(managers[r]) EXCEPT
           !.projected_fields = ProjectionWith(@, fields, 1)]]
  /\ outcome' = Returned("only", "mongo_odm", r, t, fields)
  /\ UNCHANGED <<motor, storeVars, envVars>>

\* t = r.exclude(*fields)
exclude(r, t, fields) ==
  /\ IF WireId \in fields
       THEN /\ outcome' = Raised("exclude", "mongo_odm", r, t, fields,
                                 "PrimaryKeyCantBeExcluded")
            /\ UNCHANGED managers
       ELSE /\ managers' = [managers EXCEPT ![t] =
                 [Clone(managers[r]) EXCEPT
                    !.projected_fields = ProjectionWith(@, fields, 0)]]
            /\ outcome' = Returned("exclude", "mongo_odm", r, t, fields)
  /\ UNCHANGED <<motor, storeVars, envVars>>

\* t = r.filter(**filter_kwargs)
filter(r, t, filter_kwargs) ==
  /\ managers' = [managers EXCEPT ![t] =
        [Clone(managers[r]) EXCEPT !.filter = filter_kwargs]]
  /\ outcome' = Returned("filter", "mongo_odm", r, t, {})
  /\ UNCHANGED <<motor, storeVars, envVars>>

\* t = r.limit(count)
limit(r, t, count) ==
  /\ managers' = [managers EXCEPT ![t] =
        [Clone(managers[r]) EXCEPT !.limit = count]]
  /\ outcome' = Returned("limit", "mongo_odm", r, t, {})
  /\ UNCHANGED <<motor, storeVars, envVars>>

\* t = r.skip(skip)
skip(r, t, n) ==
  /\ managers' = [managers EXCEPT ![t] =
        [Clone(managers[r]) EXCEPT !.skip = n]]
  /\ outcome' = Returned("skip", "mongo_odm", r, t, {})
  /\ UNCHANGED <<motor, storeVars, envVars>>

----------------------------------------------------------------------------
(* motor_odm.managers.MongoBaseQueryManager: every configuration call     *)
(* assigns to self and returns self, so the returned reference is the     *)
(* receiver itself.                                                       *)

\* __init__ followed by add_to_class(document_class)
NewMotorManager ==
  [all_document_fields |-> DeclaredFields, projected_fields |-> DeclaredFields,
   filter |-> EmptyDict, limit |-> NoInt, skip |-> NoInt]

\* _check_fields_exist_in_document: TRUE when it raises
FieldsMissing(self, fields) == fields \ self.all_document_fields # {}

motor_only(fields) ==
  /\ IF FieldsMissing(motor, fields)
       THEN /\ outcome' = Raised("only", "motor_odm", "objects", "objects",
                                 fields, "FieldNotFoundOnDocument")
            /\ UNCHANGED motor
       ELSE /\ motor' = [motor EXCEPT !.projected_fields = fields]
            /\ outcome' = Returned("only", "motor_odm", "objects", "objects", fields)
  /\ UNCHANGED <<managers, storeVars, envVars>>

motor_exclude(fields) ==
  /\ IF FieldsMissing(motor, fields)
       THEN /\ outcome' = Raised("exclude", "motor_odm", "objects", "objects",
                                 fields, "FieldNotFoundOnDocument")
            /\ UNCHANGED motor
       ELSE /\ motor' = [motor EXCEPT
                 !.projected_fields = motor.all_document_fields \ fields]
            /\ outcome' = Returned("exclude", "motor_odm", "objects", "objects", fields)
  /\ UNCHANGED <<managers, storeVars, envVars>>

motor_filter(filter_kwargs) ==
  /\ motor' = [motor EXCEPT !.filter = filter_kwargs]
  /\ outcome' = Returned("filter", "motor_odm", "objects", "objects", {})
  /\ UNCHANGED <<managers, storeVars, envVars>>

motor_limit(count) ==
  /\ motor' = [motor EXCEPT !.limit = count]
  /\ outcome' = Returned("limit", "motor_odm", "objects", "objects", {})
  /\ UNCHANGED <<managers, storeVars, envVars>>

motor_skip(n) ==
  /\ motor' = [motor EXCEPT !.skip = n]
  /\ outcome' = Returned("skip", "motor_odm", "objects", "objects", {})
  /\ UNCHANGED <<managers, storeVars, envVars>>

----------------------------------------------------------------------------
(* Initial state: the document type has been declared (its `.objects` and *)
(* the application's other references are fresh managers), the collection *)
(* is empty and no document instance has been built.                      *)

\* mongo_odm.config at import: both module globals are None
Unconfigured == [motor_client |-> NULL, db_name |-> NULL]
\* mongo_odm.config after the configure call that precedes the declaration
\* of Person
DefaultConfig == [motor_client |-> "c1", db_name |-> "db1"]

\* the application's tasks; a task that has not started holds nothing
Tasks == {"t1", "t2"}
NoPlan == [filter |-> EmptyDict, skip |-> NoInt, limit |-> NoInt, fields |-> {}]
NoQuery == [filter |-> EmptyDict, projected_fields |-> NoProjection,
            skip |-> NoInt, limit |-> NoInt]
\* the save call a task has in flight: the collection call it sends, on
\* which document, with which filter id and payload, and the driver's reply
NoCall == [op |-> "none", on |-> "none", id |-> NULL, payload |-> EmptyDict,
           reply |-> NULL]
IdleTask == [pc |-> "idle", plan |-> NoPlan, query |-> NoQuery, result |-> <<>>,
             call |-> NoCall]

\* the managers once Person is declared: those of Person are bound to it
InitManagers ==
  [r \in Refs |-> IF r = "other_objects" THEN QueryManager ELSE NewManager]

NoOutcome == Returned("init", "none", "objects", "objects", {})
NoDoc == [f \in DeclaredFields |-> ABSENT]
DocRefs == {"d1"}

Init ==
  /\ managers = InitManagers
  /\ motor = NewMotorManager
  /\ outcome = NoOutcome
  /\ storage = <<>>
  /\ docs = [d \in DocRefs |-> NoDoc]
  /\ nextId = 0
  /\ result = <<>>
  /\ saves = [d \in DocRefs |-> 0]
  /\ config = DefaultConfig
  /\ closed = {}
  /\ configured = TRUE
  /\ declared = {"Person"}
  /\ registry = [n \in {"Person"} |-> "Person"]
  /\ tasks = [t \in Tasks |-> IdleTask]

\* base = chained: the application continues the chain from the returned builder
rebind ==
  /\ managers["base"] # managers["chained"]
  /\ managers' = [managers EXCEPT !["base"] = managers["chained"]]
  /\ outcome' = Returned("rebind", "application", "chained", "base", {})
  /\ UNCHANGED <<motor, storeVars, envVars>>

\* filters used when only the builder state is explored
ChainFilterArgs == {EmptyDict, [k \in {"name"} |-> "n0"], [k \in {"age"} |-> "a1"]}

ArgSets(names) == {fs \in SUBSET names : Cardinality(fs) <= MaxArgs}
Receivers == {"objects", "base"}

NextBuilder ==
  \/ \E r \in Receivers, fields \in ArgSets(FieldArgs) : only(r, "chained", fields)
  \/ \E r \in Receivers, fields \in ArgSets(FieldArgs \cup {WireId}) :
        exclude(r, "chained", fields)
  \/ \E r \in Receivers, kw \in ChainFilterArgs : filter(r, "chained", kw)
  \/ \E r \in Receivers, n \in 1..MaxPage : limit(r, "chained", n)
  \/ \E r \in Receivers, n \in 1..MaxPage : skip(r, "chained", n)
  \/ rebind

SpecBuilder == Init /\ [][NextBuilder]_vars

NextMotor ==
  \/ \E fields \in ArgSets(FieldArgs) : motor_only(fields)
  \/ \E fields \in ArgSets(FieldArgs \cup {WireId}) : motor_exclude(fields)
  \/ \E kw \in FilterArgs : motor_filter(kw)
  \/ \E n \in 1..MaxPage : motor_limit(n)
  \/ \E n \in 1..MaxPage : motor_skip(n)

SpecMotor == Init /\ [][NextMotor]_vars

----------------------------------------------------------------------------
(* Identifiers.  The store generates IdTable[1], IdTable[2], ... in turn;  *)
(* UserIds are well-formed identifiers chosen by the application (the      *)
(* tests' ID = "5349b4ddd2781d08c09890f3"); "bad" is a non-empty string    *)
(* that is not a 24-hex identifier.                                        *)

IdTable == <<"o1", "o2", "o3", "o4", "o5", "o6">>
UserIds == {"u1"}
ObjectIds == {IdTable[i] : i \in 1..Len(IdTable)} \cup UserIds
Malformed == "bad"

\* bson.ObjectId.is_valid
is_valid(v) == v \in ObjectIds

\* Python truthiness of `self.id`
Truthy(v) == v \notin {NULL, ""}

----------------------------------------------------------------------------
(* The collection.  A stored record is a function on RecordKeys; ABSENT    *)
(* marks a key the record does not carry.  `_id` is always carried.        *)

\* the keys a stored record can carry: the wire keys and the other keys of
\* dict(), which a payload written without removing them would keep
RecordKeys == WireKeys \cup {ID} \cup ManagerFieldNames

Positions(coll, id) == {i \in 1..Len(coll) : coll[i][WireId] = id}

\* the record stored for payload under identifier id
RecordOf(id, payload) ==
  [k \in RecordKeys |->
     IF k = WireId THEN id
     ELSE IF k \in DOMAIN payload THEN payload[k] ELSE ABSENT]

\* collection.insert_one(payload): the record is appended under a fresh id
InsertOne(coll, payload, newId) == Append(coll, RecordOf(newId, payload))

\* replace_one that appends the replacement without looking for a match
ReplaceOneAppending(coll, id, payload) ==
  [coll |-> Append(coll, RecordOf(id, payload)), upserted_id |-> id]

\* replace_one without upsert: an unmatched filter writes nothing
ReplaceOneWithoutUpsert(coll, id, payload) ==
  IF Positions(coll, id) = {}
    THEN [coll |-> coll, upserted_id |-> NULL]
    ELSE [coll |-> [i \in 1..Len(coll) |->
                      IF i \in Positions(coll, id) THEN RecordOf(id, payload) ELSE coll[i]],
          upserted_id |-> NULL]

\* collection.replace_one({"_id": id}, payload, upsert=True):
\* the matched record is replaced in place, or a record is created under id
ReplaceOne(coll, id, payload) ==
  IF Positions(coll, id) # {}
    THEN [coll |-> [i \in 1..Len(coll) |->
                      IF coll[i][WireId] = id THEN RecordOf(id, payload) ELSE coll[i]],
          upserted_id |-> NULL]
    ELSE [coll |-> Append(coll, RecordOf(id, payload)), upserted_id |-> id]

\* what find_one returns when nothing matches (Python None)
NoRecord == [k \in RecordKeys |-> ABSENT]

\* collection.find_one({"_id": id})
FindById(coll, id) ==
  IF Positions(coll, id) = {} THEN NoRecord
  ELSE coll[CHOOSE i \in Positions(coll, id) : \A j \in Positions(coll, id) : i <= j]

\* delete_one emptying the collection whatever the filter matches
DeleteOneDroppingAll(coll, id) == <<>>

\* collection.delete_one({"_id": id}): the collection without the first match
DeleteOne(coll, id) ==
  IF Positions(coll, id) = {} THEN coll
  ELSE LET p == CHOOSE i \in Positions(coll, id) : \A j \in Positions(coll, id) : i <= j
       IN [i \in 1..(Len(coll) - 1) |-> IF i < p THEN coll[i] ELSE coll[i + 1]]

----------------------------------------------------------------------------
(* mongo_odm.documents.MongoDocument *)

\* dict(exclude=excluded) leaving the manager-valued fields in
DictOfKeepingManagers(self, excluded) ==
  [f \in DeclaredFields \cup ManagerFieldNames |->
     IF f \in excluded THEN ABSENT
     ELSE IF f \in ManagerFieldNames THEN MANAGER ELSE self[f]]

\* dict(exclude=excluded): the fields by name, without the manager-valued
\* fields and the excluded ones
DictOf(self, excluded) ==
  [f \in DeclaredFields \cup ManagerFieldNames |->
     IF f \in ManagerFieldNames \cup excluded THEN ABSENT ELSE self[f]]

\* json_document after json_document.pop("id")
Payload(json_document) == [k \in DOMAIN json_document \ {ID} |-> json_document[k]]

\* `if self.id and ObjectId.is_valid(self.id)`
HasValidId(self) == Truthy(self[ID]) /\ is_valid(self[ID])

\* pydantic validation of `setattr(self, f, v)` under validate_assignment
Validates(f, v) ==
  IF v = NULL THEN Schema[f].allow_none
  ELSE IF f = ID THEN is_valid(v)
  ELSE v \in FieldValues[f]

\* construct keeping a stored null and leaving a missing key null
ConstructFieldWithoutDefault(f, values) ==
  LET key == Schema[f].alias IN
  IF key \in DOMAIN values THEN values[key] ELSE NULL

\* construct(**values): the field is filled from its wire alias; a null
\* under a non-required field and a missing key give the declared default
ConstructField(f, values) ==
  LET key == Schema[f].alias IN
  IF key \in DOMAIN values
    THEN IF values[key] = NULL /\ ~Schema[f].required
           THEN Schema[f].default
           ELSE values[key]
    ELSE Schema[f].default

construct(values) == [f \in DeclaredFields |-> ConstructField(f, values)]

\* a stored or projected record as the mapping handed to construct(**...)
AsDict(rec) == [k \in {x \in DOMAIN rec : rec[x] # ABSENT} |-> rec[k]]

\* the order of the keys of a stored record: `_id` first, then the payload's
KeyOrder == <<"_id", "id", "name", "age">>

\* reload's loop without the `_id` to `id` renaming: the first key is not a
\* field of the document and the assignment is refused
SetAttrsWithoutRenaming(self, document, i) ==
  IF document[WireId] = ABSENT THEN [doc |-> self, raised |-> "none"]
  ELSE [doc |-> self, raised |-> "ValueError"]

\* reload's loop: setattr for each key of the fetched record, in key order,
\* `_id` going to `id`; a rejected value raises and ends the loop
RECURSIVE SetAttrs(_, _, _)
SetAttrs(self, document, i) ==
  IF i > Len(KeyOrder) THEN [doc |-> self, raised |-> "none"]
  ELSE LET f == IF KeyOrder[i] = WireId THEN ID ELSE KeyOrder[i]
           v == document[KeyOrder[i]]
       IN IF v = ABSENT THEN SetAttrs(self, document, i + 1)
          ELSE IF ~Validates(f, v) THEN [doc |-> self, raised |-> "ValidationError"]
          ELSE SetAttrs([self EXCEPT ![f] = v], document, i + 1)

\* d = Person(name=..., age=...): the validating constructor; id is None
new(d, name, age) ==
  /\ Validates("name", name) /\ Validates("age", age)
  /\ docs' = [docs EXCEPT ![d] = [f \in DeclaredFields |->
                CASE f = ID -> NULL [] f = "name" -> name [] f = "age" -> age]]
  /\ outcome' = Returned("new", "mongo_odm", d, d, {})
  /\ saves' = [saves EXCEPT ![d] = 0]
  /\ UNCHANGED <<builderVars, storage, nextId, result, envVars>>

\* d = Person.construct(**values): built by the application without validation
construct_raw(d, values) ==
  /\ docs' = [docs EXCEPT ![d] = construct(values)]
  /\ outcome' = Returned("construct", "mongo_odm", d, d, {})
  /\ saves' = [saves EXCEPT ![d] = 0]
  /\ UNCHANGED <<builderVars, storage, nextId, result, envVars>>

\* d.<f> = v, validated on assignment
setattr(d, f, v) ==
  /\ docs[d] # NoDoc
  /\ IF Validates(f, v)
       THEN /\ docs' = [docs EXCEPT ![d][f] = v]
            /\ saves' = IF f = ID THEN [saves EXCEPT ![d] = 0] ELSE saves
            /\ outcome' = Returned("setattr", "mongo_odm", d, d, {})
       ELSE /\ outcome' = Raised("setattr", "mongo_odm", d, d, {}, "ValidationError")
            /\ UNCHANGED <<docs, saves>>
  /\ UNCHANGED <<builderVars, storage, nextId, result, envVars>>

\* await d.save(*excluded_fields)
save(d, excluded_fields) ==
  /\ docs[d] # NoDoc
  /\ LET self == docs[d]
         json_document == DictOf(self, excluded_fields)
         counted == [saves EXCEPT ![d] = IF @ = 0 THEN 1 ELSE 2]
     IN IF json_document[ID] = ABSENT
          THEN /\ outcome' = Raised("save", "mongo_odm", d, d, excluded_fields, "KeyError")
               /\ UNCHANGED <<storage, docs, nextId, saves>>
          ELSE IF HasValidId(self)
            THEN LET new_document == ReplaceOne(storage, json_document[ID],
                                                Payload(json_document))
                 IN /\ storage' = new_document.coll
                    /\ docs' = IF new_document.upserted_id # NULL
                                 THEN [docs EXCEPT ![d][ID] = new_document.upserted_id]
                                 ELSE docs
                    /\ outcome' = ReturnedBy("save", "mongo_odm", d, d, excluded_fields,
                                     IF new_document.upserted_id # NULL
                                       THEN "upserted" ELSE "replaced")
                    /\ saves' = counted
                    /\ UNCHANGED nextId
            ELSE /\ nextId < MaxNew
                 /\ storage' = InsertOne(storage, Payload(json_document),
                                         IdTable[nextId + 1])
                 /\ docs' = [docs EXCEPT ![d][ID] = IdTable[nextId + 1]]
                 /\ nextId' = nextId + 1
                 /\ outcome' = ReturnedBy("save", "mongo_odm", d, d, excluded_fields,
                                  IF self[ID] = NULL THEN "inserted without id"
                                                     ELSE "inserted for malformed id")
                 /\ saves' = counted
  /\ UNCHANGED <<builderVars, result, envVars>>

\* reload's guard testing only the document's own identifier
ReloadFailsWithoutId(self, document) == self[ID] = NULL

\* reload's two guards: no identifier yet, or find_one returned None
ReloadFails(self, document) == self[ID] = NULL \/ document = NoRecord

\* await d.reload()
reload(d) ==
  /\ docs[d] # NoDoc
  /\ LET self == docs[d]
         document == FindById(storage, self[ID])
     IN IF ReloadFails(self, document)
          THEN /\ outcome' = Raised("reload", "mongo_odm", d, d, {}, "DocumentDoestNotExists")
               /\ UNCHANGED docs
          ELSE LET r == SetAttrs(self, document, 1)
               IN /\ docs' = [docs EXCEPT ![d] = r.doc]
                  /\ outcome' = Raised("reload", "mongo_odm", d, d, {}, r.raised)
  /\ UNCHANGED <<builderVars, storage, nextId, result, saves, envVars>>

\* await d.delete()
delete(d) ==
  /\ docs[d] # NoDoc
  /\ LET self == docs[d]
     IN IF Positions(storage, self[ID]) = {}
          THEN /\ outcome' = Raised("delete", "mongo_odm", d, d, {}, "DocumentDoestNotExists")
               /\ UNCHANGED storage
          ELSE /\ storage' = DeleteOne(storage, self[ID])
               /\ outcome' = Returned("delete", "mongo_odm", d, d, {})
  /\ UNCHANGED <<builderVars, docs, nextId, result, saves, envVars>>

\* raw mappings the application hands to construct(**values)
RawValues ==
  LET opt(k, vs) == {EmptyDict} \cup {[x \in {k} |-> v] : v \in vs}
      merge(a, b) == [x \in DOMAIN a \cup DOMAIN b |-> IF x \in DOMAIN a THEN a[x] ELSE b[x]]
  IN {merge(i, merge(n, a)) :
        i \in opt(WireId, {Malformed}),
        n \in opt("name", FieldValues["name"]),
        a \in opt("age", {NULL})}

\* excluded_fields the application passes to save(...)
SaveArgs == {{}, {"age"}, {ID}}

NextDoc ==
  \/ \E d \in DocRefs, n \in FieldValues["name"], a \in FieldValues["age"] \cup {NULL} :
        new(d, n, a)
  \/ \E d \in DocRefs, values \in RawValues : construct_raw(d, values)
  \/ \E d \in DocRefs, f \in DataFields :
        \E v \in FieldValues[f] \cup {NULL} : setattr(d, f, v)
  \/ \E d \in DocRefs, v \in UserIds \cup {NULL, Malformed} : setattr(d, ID, v)
  \/ \E d \in DocRefs, F \in SaveArgs : save(d, F)
  \/ \E d \in DocRefs : reload(d)
  \/ \E d \in DocRefs : delete(d)

SpecDoc == Init /\ [][NextDoc]_vars

----------------------------------------------------------------------------
(* Read terminal operations of mongo_odm.managers.MongoBaseQueryManager.   *)
(* The driver is pymongo 3.x behind motor 2.x: an empty projection         *)
(* document is sent as {"_id": 1}; the server returns `_id` with every     *)
(* inclusion projection and rejects a projection mixing 0 and 1 flags.     *)

\* a record matches when it carries every filter key with the given value
Matches(rec, flt) ==
  \A k \in DOMAIN flt : k \in RecordKeys /\ rec[k] # ABSENT /\ rec[k] = flt[k]

\* collection.find(filter): the matching records in natural order
Find(coll, flt) == SelectSeq(coll, LAMBDA rec : Matches(rec, flt))

\* the projection document the driver sends for projection=p
Sent(p) ==
  IF p.none THEN p
  ELSE IF DOMAIN p.dict = {} THEN [none |-> FALSE, dict |-> [k \in {WireId} |-> 1]]
  ELSE p

\* the server rejects a projection document with both flags (`_id` aside)
Rejected(p) ==
  /\ ~p.none
  /\ \E k1 \in DOMAIN p.dict \ {WireId}, k2 \in DOMAIN p.dict \ {WireId} :
        p.dict[k1] = 1 /\ p.dict[k2] = 0

\* an inclusion projection: some key is flagged 1
Inclusion(p) == ~p.none /\ \E k \in DOMAIN p.dict : p.dict[k] = 1

\* the keys of rec the server returns under the sent projection p
Kept(rec, p) ==
  IF p.none THEN {k \in RecordKeys : rec[k] # ABSENT}
  ELSE IF Inclusion(p)
    THEN {k \in RecordKeys : rec[k] # ABSENT /\
            (k = WireId \/ (k \in DOMAIN p.dict /\ p.dict[k] = 1))}
    ELSE {k \in RecordKeys : rec[k] # ABSENT /\
            ~(k \in DOMAIN p.dict /\ p.dict[k] = 0)}

\* the record as returned by find / find_one with projection=p
Project(rec, p) ==
  [k \in RecordKeys |-> IF k \in Kept(rec, Sent(p)) THEN rec[k] ELSE ABSENT]

\* cursor.skip(n) dropping nothing
SkipNothing(seq, n) == seq

\* cursor.skip(n) and to_list(length=n) on a sequence of records
Skip(seq, n) ==
  IF n = NoInt \/ n = 0 THEN seq
  ELSE IF n >= Len(seq) THEN <<>> ELSE SubSeq(seq, n + 1, Len(seq))
ToList(seq, length) ==
  IF length = NoInt \/ length >= Len(seq) THEN seq ELSE SubSeq(seq, 1, length)

\* first(): the first match, projected and materialized; <<>> for None
FirstOf(coll, self) ==
  LET found == Find(coll, self.filter) IN
  IF found = <<>> THEN <<>>
  ELSE <<construct(AsDict(Project(found[1], self.projected_fields)))>>

\* all(): the matches after skip, at most limit of them, each projected
\* and materialized
AllOf(coll, self) ==
  LET found == ToList(Skip(Find(coll, self.filter), self.skip), self.limit) IN
  [i \in 1..Len(found) |-> construct(AsDict(Project(found[i], self.projected_fields)))]

\* await r.first()
first(r) ==
  /\ IF Rejected(Sent(managers[r].projected_fields))
       THEN /\ outcome' = Raised("first", "mongo_odm", r, r, {}, "OperationFailure")
            /\ UNCHANGED result
       ELSE /\ result' = FirstOf(storage, managers[r])
            /\ outcome' = Returned("first", "mongo_odm", r, r, {})
  /\ UNCHANGED <<builderVars, storage, docs, nextId, saves, envVars>>

\* await r.all()
all(r) ==
  /\ IF Rejected(Sent(managers[r].projected_fields))
       THEN /\ outcome' = Raised("all", "mongo_odm", r, r, {}, "OperationFailure")
            /\ UNCHANGED result
       ELSE /\ result' = AllOf(storage, managers[r])
            /\ outcome' = Returned("all", "mongo_odm", r, r, {})
  /\ UNCHANGED <<builderVars, storage, docs, nextId, saves, envVars>>

\* the collection holds at most MaxDocs records when queries are explored
MaxDocs == 2

\* records save() writes: name set, age set, null or left out of the save
StoredRecords(id) ==
  {RecordOf(id, [k \in DataFields |-> IF k = "name" THEN n ELSE a]) :
     n \in FieldValues["name"], a \in FieldValues["age"] \cup {NULL, ABSENT}}

\* collections of n records inserted one after the other
RECURSIVE Collections(_)
Collections(n) ==
  IF n = 0 THEN {<<>>}
  ELSE {Append(c, rec) : c \in Collections(n - 1), rec \in StoredRecords(IdTable[n])}

InitQuery ==
  /\ managers = InitManagers
  /\ motor = NewMotorManager
  /\ outcome = NoOutcome
  /\ \E n \in 0..MaxDocs : storage \in Collections(n) /\ nextId = n
  /\ docs = [d \in DocRefs |-> NoDoc]
  /\ result = <<>>
  /\ saves = [d \in DocRefs |-> 0]
  /\ config = DefaultConfig
  /\ closed = {}
  /\ configured = TRUE
  /\ declared = {"Person"}
  /\ registry = [n \in {"Person"} |-> "Person"]
  /\ tasks = [t \in Tasks |-> IdleTask]

\* filters the query exploration passes to filter()
QueryFilterArgs == {EmptyDict, [age |-> "a1"]}

NextQuery ==
  \/ \E fields \in SUBSET DeclaredFields : exclude("objects", "chained", fields)
  \/ \E fields \in SUBSET DeclaredFields : only("objects", "chained", fields)
  \/ \E kw \in QueryFilterArgs : filter("chained", "chained", kw)
  \/ \E n \in 1..MaxPage : limit("chained", "chained", n)
  \/ \E n \in 1..MaxPage : skip("chained", "chained", n)
  \/ first("chained")
  \/ all("chained")

SpecQuery == InitQuery /\ [][NextQuery]_vars

----------------------------------------------------------------------------
(* Query-builder claims *)

\* the four configuration fields of a motor_odm manager
MotorConfig(m) == <<m.filter, m.projected_fields, m.skip, m.limit>>

\* C1: every configuration call (only, exclude, filter, limit, skip) leaves
\* the receiver's own filter, projection, skip and limit unchanged, so a
\* second chain started from the same builder sees the original state, and
\* the per-type default builder `.objects` stays in its zero state.
C1_ReceiverUnchanged ==
  [][ /\ (outcome'.gen = "mongo_odm" /\ outcome'.on # outcome'.to)
           => managers'[outcome'.on] = managers[outcome'.on]
      /\ outcome'.gen = "mongo_odm" => managers'["objects"] = NewManager
      /\ outcome'.gen = "motor_odm"
           => /\ MotorConfig(motor') = MotorConfig(motor)
              /\ MotorConfig(motor') = MotorConfig(NewMotorManager) ]_vars

\* the mongo_odm half of C1 alone: a clone-per-call builder never changes
\* its receiver
CloneLeavesReceiver ==
  [][ outcome'.gen = "mongo_odm"
        => /\ outcome'.on # outcome'.to
                => managers'[outcome'.on] = managers[outcome'.on]
           /\ managers'["objects"] = NewManager ]_vars

\* a projection dict that marks one key 1 and another key 0
Mixed(p) ==
  /\ ~p.none
  /\ \E k1 \in DOMAIN p.dict, k2 \in DOMAIN p.dict : p.dict[k1] = 1 /\ p.dict[k2] = 0

\* C2: no builder state reachable by only(...) / exclude(...) calls holds a
\* projection that marks some field included and another field excluded.
C2_NeverMixed == \A r \in Refs : ~Mixed(managers[r].projected_fields)

\* names that denote the identifier: the field name and its wire key
IdNames == {ID, WireId}

\* C3: only(F) / exclude(F) with a name the document type does not declare
\* raises FieldNotFoundOnDocument at the call, and no builder ever carries
\* an undeclared name in its projection.
C3_UndeclaredRejected ==
  /\ (outcome.op \in {"only", "exclude"}
        /\ outcome.fields \ (DeclaredFields \cup IdNames) # {})
       => outcome.raised = "FieldNotFoundOnDocument"
  /\ \A r \in Refs :
       DOMAIN managers[r].projected_fields.dict \subseteq DeclaredFields \cup IdNames
  /\ motor.projected_fields \subseteq DeclaredFields

\* C4: exclude(...) naming the identifier, as `id` or as `_id`, raises
\* PrimaryKeyCantBeExcluded, and no builder state marks the identifier
\* excluded.
C4_IdNeverExcluded ==
  /\ (outcome.op = "exclude" /\ outcome.fields \cap IdNames # {})
       => outcome.raised = "PrimaryKeyCantBeExcluded"
  /\ \A r \in Refs : \A k \in IdNames \cap DOMAIN managers[r].projected_fields.dict :
       managers[r].projected_fields.dict[k] # 0
  /\ ID \in motor.projected_fields

----------------------------------------------------------------------------
(* Projection claims on the read terminal operations *)

\* the builder only(F) returns on a fresh builder, F being the dict's keys
OnlyState(self) ==
  /\ ~self.projected_fields.none
  /\ DOMAIN self.projected_fields.dict \subseteq DeclaredFields
  /\ \A k \in DOMAIN self.projected_fields.dict : self.projected_fields.dict[k] = 1

\* the last call was a first() on r that returned, with at least one match
FirstReturned(r) ==
  /\ outcome.op = "first" /\ outcome.on = r /\ outcome.raised = "none"
  /\ Find(storage, managers[r].filter) # <<>>

ExcludeState(self) ==
  /\ ~self.projected_fields.none
  /\ DOMAIN self.projected_fields.dict \subseteq DataFields
  /\ \A k \in DOMAIN self.projected_fields.dict : self.projected_fields.dict[k] = 0

\* the builder with the filter, skip and limit of self that only(fields)
\* returns on a fresh builder
WithOnly(self, fields) ==
  [self EXCEPT !.projected_fields = ProjectionWith(NoProjection, fields, 1)]

\* C6: a builder configured with exclude(F), F without the identifier, and
\* the builder configured with only(schema - F) under the same filter, skip
\* and limit return the same documents from first() and all().
C6_ExcludeIsOnlyComplement ==
  \A r \in Refs : ExcludeState(managers[r]) =>
    LET F == DOMAIN managers[r].projected_fields.dict
        other == WithOnly(managers[r], DeclaredFields \ F)
    IN /\ FirstOf(storage, managers[r]) = FirstOf(storage, other)
       /\ AllOf(storage, managers[r]) = AllOf(storage, other)

\* the same equivalence for the non-empty field sets
C6_NonEmptyExcludeIsOnlyComplement ==
  \A r \in Refs :
    (ExcludeState(managers[r]) /\ DOMAIN managers[r].projected_fields.dict # {}) =>
      LET F == DOMAIN managers[r].projected_fields.dict
          other == WithOnly(managers[r], DeclaredFields \ F)
      IN /\ FirstOf(storage, managers[r]) = FirstOf(storage, other)
         /\ AllOf(storage, managers[r]) = AllOf(storage, other)

----------------------------------------------------------------------------
(* Document lifecycle claims *)

\* the stored records that carry identifier id
Carrying(coll, id) == {i \in 1..Len(coll) : coll[i][WireId] = id}

\* the record save(excluded) writes for document self
Written(self, excluded) == RecordOf(self[ID], Payload(DictOf(self, excluded)))

\* a step that is a successful save() of document d
SaveStep(d) == outcome'.op = "save" /\ outcome'.on = d /\ outcome'.raised = "none"

\* C7: a save() that follows an earlier save() of the same document with no
\* change of identifier in between leaves exactly one record carrying the
\* document's identifier, keeps the identifier, and the record holds the
\* field values of this second save.
C7_SecondSaveUpdates ==
  [][ \A d \in DocRefs : (SaveStep(d) /\ saves[d] >= 1) =>
        /\ docs'[d][ID] = docs[d][ID]
        /\ Cardinality(Carrying(storage', docs'[d][ID])) = 1
        /\ FindById(storage', docs'[d][ID]) = Written(docs'[d], outcome'.fields)
        /\ Len(storage') = IF Carrying(storage, docs[d][ID]) = {}
                             THEN Len(storage) + 1 ELSE Len(storage) ]_vars

\* a second consecutive save that changed a field value of the stored record
C7_Witness ==
  \E d \in DocRefs :
    /\ saves[d] = 2 /\ outcome.op = "save" /\ outcome.path = "replaced"
    /\ docs[d]["age"] = "a1"
    /\ Len(storage) = 1

\* every record of coll is still in coll2 at the same position, unchanged
OthersKept(coll, coll2) ==
  /\ Len(coll2) = Len(coll) + 1
  /\ \A i \in 1..Len(coll) : coll2[i] = coll[i]

\* C8: save() with an absent or malformed identifier inserts exactly one new
\* record and adopts the store-assigned identifier; save() with a
\* well-formed identifier that matches no record creates exactly one record
\* under that identifier and keeps it; no other record is changed.
C8_SaveCreatesOne ==
  [][ \A d \in DocRefs : SaveStep(d) =>
        /\ ~HasValidId(docs[d]) =>
             /\ OthersKept(storage, storage')
             /\ Carrying(storage, docs'[d][ID]) = {}
             /\ docs'[d][ID] = IdTable[nextId']
             /\ is_valid(docs'[d][ID])
             /\ Cardinality(Carrying(storage', docs'[d][ID])) = 1
             /\ storage'[Len(storage')] = Written(docs'[d], outcome'.fields)
        /\ (HasValidId(docs[d]) /\ Carrying(storage, docs[d][ID]) = {}) =>
             /\ OthersKept(storage, storage')
             /\ docs'[d][ID] = docs[d][ID]
             /\ Cardinality(Carrying(storage', docs'[d][ID])) = 1
             /\ storage'[Len(storage')] = Written(docs'[d], outcome'.fields) ]_vars

\* a record created under an application-chosen identifier next to a record
\* inserted earlier
C8_Witness ==
  \E d \in DocRefs :
    /\ outcome.op = "save" /\ outcome.path = "upserted"
    /\ docs[d][ID] \in UserIds
    /\ Len(storage) = 2
    /\ storage[2][WireId] = docs[d][ID]

\* a step that is a reload() of document d whose record exists
ReloadStep(d) ==
  /\ outcome'.op = "reload" /\ outcome'.on = d
  /\ docs[d][ID] # NULL /\ Carrying(storage, docs[d][ID]) # {}

Assignable(rec) ==
  \A f \in DeclaredFields :
    rec[Schema[f].alias] # ABSENT => Validates(f, rec[Schema[f].alias])

C10_ReloadFailsCleanly ==
  [][ \A d \in DocRefs :
        (/\ outcome'.op = "reload" /\ outcome'.on = d
         /\ (docs[d][ID] = NULL \/ Carrying(storage, docs[d][ID]) = {}))
        => /\ outcome'.raised = "DocumentDoestNotExists"
           /\ docs' = docs
           /\ storage' = storage ]_vars

\* a failed reload of a document that has an identifier no record carries,
\* while the collection holds another record
C10_Witness ==
  \E d \in DocRefs :
    /\ outcome.op = "reload" /\ outcome.raised = "DocumentDoestNotExists"
    /\ docs[d][ID] # NULL
    /\ Carrying(storage, docs[d][ID]) = {}
    /\ Len(storage) >= 1

\* the other failure case: a failed reload of a document without identifier
C10_NoIdReached ==
  \E d \in DocRefs :
    /\ outcome.op = "reload" /\ outcome.raised = "DocumentDoestNotExists"
    /\ docs[d][ID] = NULL

\* a step that is a delete() call on document d
DeleteStep(d) == outcome'.op = "delete" /\ outcome'.on = d

\* C11: Document.delete() removes exactly the one record carrying the
\* document's identifier and leaves every other record as it is; it raises
\* DocumentDoestNotExists, changing nothing, when no record carries the
\* identifier: on a document without identifier, and on a second delete()
\* directly after a successful one.
C11_DeleteRemovesOne ==
  [][ \A d \in DocRefs : DeleteStep(d) =>
        LET id == docs[d][ID] IN
        /\ Carrying(storage, id) # {} =>
             /\ outcome'.raised = "none"
             /\ Len(storage') = Len(storage) - 1
             /\ storage' = SelectSeq(storage, LAMBDA rec : rec[WireId] # id)
        /\ Carrying(storage, id) = {} =>
             /\ outcome'.raised = "DocumentDoestNotExists"
             /\ storage' = storage
        /\ id = NULL => outcome'.raised = "DocumentDoestNotExists"
        /\ (outcome.op = "delete" /\ outcome.on = d /\ outcome.raised = "none")
             => outcome'.raised = "DocumentDoestNotExists"
        /\ docs' = docs ]_vars

\* a delete that removed the document's record and kept the other record
C11_Witness ==
  \E d \in DocRefs :
    /\ outcome.op = "delete" /\ outcome.on = d /\ outcome.raised = "none"
    /\ Len(storage) = 1
    /\ storage[1][WireId] # docs[d][ID]
    /\ docs[d][ID] \in ObjectIds

----------------------------------------------------------------------------
(* get, count, the raw cursor and the manager's delete of                  *)
(* mongo_odm.managers.MongoBaseQueryManager.                               *)

\* str(ObjectId): the 24-hex string of each identifier, in IdTable order,
\* then the strings of the application-chosen identifiers
HexTable == <<"h1", "h2", "h3", "h4", "h5", "h6">>
HexOf == [id \in ObjectIds |->
            IF id \in UserIds THEN "hu1"
            ELSE HexTable[CHOOSE i \in 1..Len(IdTable) : IdTable[i] = id]]
HexStrings == {HexOf[id] : id \in ObjectIds}

\* isinstance(v, str) for the values handed to get(id=...)
IsStr(v) == v \in HexStrings \cup {Malformed}

\* ObjectId(s) keeping the string as it is
ObjectIdKeepingString(s) == s

\* bson.ObjectId(s) for a 24-hex string s
ObjectId(s) == CHOOSE id \in ObjectIds : HexOf[id] = s

\* ObjectId(s) raises bson.errors.InvalidId for any other string
ConversionFails(kwargs) ==
  ID \in DOMAIN kwargs /\ IsStr(kwargs[ID]) /\ kwargs[ID] \notin HexStrings

\* get's lookup taking no account of the keyword arguments
GetFilterIgnoringKwargs(kwargs) == EmptyDict

\* get's lookup: `id` is moved to `_id`, a string value going through ObjectId
GetFilter(kwargs) ==
  IF ID \in DOMAIN kwargs
    THEN [k \in (DOMAIN kwargs \ {ID}) \cup {WireId} |->
            IF k = WireId
              THEN IF IsStr(kwargs[ID]) THEN ObjectId(kwargs[ID]) ELSE kwargs[ID]
              ELSE kwargs[k]]
    ELSE kwargs

\* pydantic's validating constructor on **values: a field is read from its
\* alias; a missing required field and a null under a field that does not
\* allow it are errors; a missing optional field takes its default
FieldError(f, values) ==
  LET key == Schema[f].alias IN
  IF key \in DOMAIN values THEN ~Validates(f, values[key]) ELSE Schema[f].required

InitField(f, values) ==
  LET key == Schema[f].alias IN
  IF key \in DOMAIN values THEN values[key] ELSE Schema[f].default

MongoDocument(values) ==
  IF \E f \in DeclaredFields : FieldError(f, values)
    THEN [docs |-> <<>>, raised |-> "ValidationError"]
    ELSE [docs |-> <<[f \in DeclaredFields |-> InitField(f, values)]>>,
          raised |-> "none"]

\* get(**kwargs): what it returns (docs) or raises
GetOf(coll, self, kwargs) ==
  IF ConversionFails(kwargs) THEN [docs |-> <<>>, raised |-> "InvalidId"]
  ELSE IF Rejected(Sent(self.projected_fields))
    THEN [docs |-> <<>>, raised |-> "OperationFailure"]
  ELSE LET found == Find(coll, GetFilter(kwargs)) IN
       IF found = <<>> THEN [docs |-> <<>>, raised |-> "DocumentDoestNotExists"]
       ELSE MongoDocument(AsDict(Project(found[1], self.projected_fields)))

\* await r.get(**kwargs)
get(r, kwargs) ==
  /\ LET got == GetOf(storage, managers[r], kwargs) IN
     IF got.raised = "none"
       THEN /\ result' = got.docs
            /\ outcome' = [Returned("get", "mongo_odm", r, r, {}) EXCEPT !.kwargs = kwargs]
       ELSE /\ outcome' = [Raised("get", "mongo_odm", r, r, {}, got.raised)
                              EXCEPT !.kwargs = kwargs]
            /\ UNCHANGED result
  /\ UNCHANGED <<builderVars, storage, docs, nextId, saves, envVars>>

\* count_documents(filter, skip=, limit=): a $match, $skip, $limit pipeline;
\* the server refuses a $limit that is not positive
CountOf(coll, self) == Len(ToList(Skip(Find(coll, self.filter), self.skip), self.limit))

\* await r.count(); the number is returned as the one element of result
count(r) ==
  /\ IF managers[r].limit = 0
       THEN /\ outcome' = Raised("count", "mongo_odm", r, r, {}, "OperationFailure")
            /\ UNCHANGED result
       ELSE /\ result' = <<CountOf(storage, managers[r])>>
            /\ outcome' = Returned("count", "mongo_odm", r, r, {})
  /\ UNCHANGED <<builderVars, storage, docs, nextId, saves, envVars>>

\* cursor.limit(n): the server takes a limit of 0 as no limit
CursorLimit(seq, n) == IF n = 0 THEN seq ELSE ToList(seq, n)

\* raw_cursor(): the records the cursor yields, skip and limit applied
RawCursor(coll, self) ==
  LET found == CursorLimit(Skip(Find(coll, self.filter), self.skip), self.limit) IN
  [i \in 1..Len(found) |-> Project(found[i], self.projected_fields)]

\* await r.raw_cursor().to_list(None): MongoCursor.to_list
to_list(r) ==
  /\ IF Rejected(Sent(managers[r].projected_fields))
       THEN /\ outcome' = Raised("to_list", "mongo_odm", r, r, {}, "OperationFailure")
            /\ UNCHANGED result
       ELSE /\ result' = [i \in 1..Len(RawCursor(storage, managers[r])) |->
                            construct(AsDict(RawCursor(storage, managers[r])[i]))]
            /\ outcome' = Returned("to_list", "mongo_odm", r, r, {})
  /\ UNCHANGED <<builderVars, storage, docs, nextId, saves, envVars>>

\* await r.raw_cursor().next(): MongoCursor.next on a fresh cursor
next(r) ==
  /\ IF Rejected(Sent(managers[r].projected_fields))
       THEN /\ outcome' = Raised("next", "mongo_odm", r, r, {}, "OperationFailure")
            /\ UNCHANGED result
       ELSE IF RawCursor(storage, managers[r]) = <<>>
         THEN /\ outcome' = Raised("next", "mongo_odm", r, r, {}, "StopAsyncIteration")
              /\ UNCHANGED result
         ELSE /\ result' = <<construct(AsDict(RawCursor(storage, managers[r])[1]))>>
              /\ outcome' = Returned("next", "mongo_odm", r, r, {})
  /\ UNCHANGED <<builderVars, storage, docs, nextId, saves, envVars>>

\* delete_many removing the first match only
DeleteManyFirstOnly(coll, flt) ==
  IF Find(coll, flt) = <<>> THEN coll ELSE DeleteOne(coll, Find(coll, flt)[1][WireId])

\* collection.delete_many(filter): the collection without the matches
DeleteMany(coll, flt) == SelectSeq(coll, LAMBDA rec : ~Matches(rec, flt))

\* await r.delete(): the manager's delete; the count is returned as the one
\* element of result
manager_delete(r) ==
  /\ storage' = DeleteMany(storage, managers[r].filter)
  /\ result' = <<Len(storage) - Len(storage')>>
  /\ outcome' = Returned("manager_delete", "mongo_odm", r, r, {})
  /\ UNCHANGED <<builderVars, docs, nextId, saves, envVars>>

\* keyword arguments the application passes to get(...)
GetArgs ==
  {[k \in {ID} |-> v] : v \in {IdTable[1], HexOf[IdTable[1]], Malformed} \cup UserIds}
    \cup {[age |-> "a1"]}

\* field sets passed to only(...) / exclude(...) before a terminal operation
TerminalFieldArgs == {{"age"}, {"name"}}

NextTerminal ==
  \/ \E fields \in TerminalFieldArgs : only("objects", "chained", fields)
  \/ \E fields \in TerminalFieldArgs : exclude("objects", "chained", fields)
  \/ \E kw \in QueryFilterArgs : filter("chained", "chained", kw)
  \/ \E n \in 0..MaxPage : limit("chained", "chained", n)
  \/ \E n \in 0..MaxPage : skip("chained", "chained", n)
  \/ \E kwargs \in GetArgs : get("chained", kwargs)
  \/ count("chained")
  \/ all("chained")
  \/ first("chained")
  \/ to_list("chained")
  \/ next("chained")
  \/ manager_delete("chained")

\* the collection before the terminal operations: up to MaxDocs records
\* written by save() of validated documents
RECURSIVE ValidCollections(_)
ValidCollections(n) ==
  IF n = 0 THEN {<<>>}
  ELSE {Append(c, RecordOf(IdTable[n], [k \in DataFields |-> IF k = "name" THEN nm ELSE a])) :
          c \in ValidCollections(n - 1), nm \in FieldValues["name"], a \in FieldValues["age"]}

InitTerminal ==
  /\ managers = InitManagers
  /\ motor = NewMotorManager
  /\ outcome = NoOutcome
  /\ \E n \in 0..MaxDocs : storage \in ValidCollections(n) /\ nextId = n
  /\ docs = [d \in DocRefs |-> NoDoc]
  /\ result = <<>>
  /\ saves = [d \in DocRefs |-> 0]
  /\ config = DefaultConfig
  /\ closed = {}
  /\ configured = TRUE
  /\ declared = {"Person"}
  /\ registry = [n \in {"Person"} |-> "Person"]
  /\ tasks = [t \in Tasks |-> IdleTask]

SpecTerminal == InitTerminal /\ [][NextTerminal]_vars

----------------------------------------------------------------------------
(* Claims on get, count, all, the cursor and the manager's delete *)

\* a step that is a get(**kwargs) call on builder r
GetStep(r) == outcome'.op = "get" /\ outcome'.on = r

\* record rec has the value of every pair of kwargs, `id` naming the
\* identifier in either form
PairsHold(rec, kwargs) ==
  \A k \in DOMAIN kwargs :
    IF k = ID
      THEN rec[WireId] = (IF kwargs[k] \in HexStrings THEN ObjectId(kwargs[k]) ELSE kwargs[k])
      ELSE rec[k] = kwargs[k]

\* C12: get(**kwargs) returns a single document, built from a stored record
\* that has every given value, and raises DocumentDoestNotExists when no
\* stored record has them; a get that raises changes neither the collection
\* nor the builder.
C12_GetExactMatch ==
  [][ \A r \in Refs : GetStep(r) =>
        LET kwargs == outcome'.kwargs
            matching == {i \in 1..Len(storage) : PairsHold(storage[i], kwargs)}
        IN /\ (~ConversionFails(kwargs) /\ matching = {})
                => outcome'.raised = "DocumentDoestNotExists"
           /\ outcome'.raised # "none"
                => (storage' = storage /\ managers' = managers)
           /\ outcome'.raised = "none" =>
                /\ Len(result') = 1
                /\ \E i \in matching : storage[i][WireId] = result'[1][ID]
           /\ (matching # {} /\ managers[r].projected_fields.none) =>
                /\ outcome'.raised = "none"
                /\ \A k \in DOMAIN kwargs \ {ID} : result'[1][k] = kwargs[k] ]_vars

\* get(age="a1") returned the second record, the first one having another age
C12_Witness ==
  /\ outcome.op = "get" /\ outcome.raised = "none"
  /\ outcome.kwargs = [age |-> "a1"]
  /\ Len(storage) = 2
  /\ storage[1]["age"] = "a0"
  /\ Len(result) = 1
  /\ result[1][ID] = storage[2][WireId]
  /\ result[1]["age"] = "a1"

\* a get that found nothing and raised
C12_NotFoundReached ==
  /\ outcome.op = "get" /\ outcome.raised = "DocumentDoestNotExists"
  /\ Len(storage) >= 1

\* C13: for every stored record, get(id=<its identifier as a 24-hex string>)
\* and get(id=<its native identifier>) have the same outcome; on a builder
\* without projection both return the document carrying the record's
\* identifier and field values.
C13_GetByStringOrNative ==
  \A r \in Refs : \A i \in 1..Len(storage) :
    LET rec == storage[i]
        byString == GetOf(storage, managers[r], [k \in {ID} |-> HexOf[rec[WireId]]])
        byNative == GetOf(storage, managers[r], [k \in {ID} |-> rec[WireId]])
    IN /\ byString = byNative
       /\ managers[r].projected_fields.none =>
            /\ byString.raised = "none"
            /\ byString.docs[1][ID] = rec[WireId]
            /\ \A f \in DataFields : byString.docs[1][f] = rec[f]

\* get(id=<24-hex string>) returned the document of the record it names
C13_Witness ==
  /\ outcome.op = "get" /\ outcome.raised = "none"
  /\ outcome.kwargs = [k \in {ID} |-> HexOf[IdTable[1]]]
  /\ Len(result) = 1
  /\ result[1][ID] = IdTable[1]
  /\ \E i \in 1..Len(storage) :
        storage[i][WireId] = IdTable[1] /\ storage[i]["age"] = result[1]["age"]

\* C14: get(id=<value>) with a string that is not a 24-hex identifier raises
\* InvalidFieldType.
C14_MalformedIdRejected ==
  (outcome.op = "get" /\ ConversionFails(outcome.kwargs))
    => outcome.raised = "InvalidFieldType"

\* whatever get raises on a malformed identifier, it raises before the
\* lookup: the outcome does not depend on the collection
C14_RaisedBeforeLookup ==
  (outcome.op = "get" /\ ConversionFails(outcome.kwargs))
    => outcome.raised \notin {"none", "DocumentDoestNotExists"}

\* the positions of the records that have every value of filter flt
MatchingAt(coll, flt) ==
  {i \in 1..Len(coll) : \A k \in DOMAIN flt : coll[i][k] = flt[k]}

\* min(limit, max(0, m - skip)), an absent limit or skip not counting
Paged(m, skipped, limited) ==
  LET rest == IF skipped = NoInt THEN m
              ELSE IF m >= skipped THEN m - skipped ELSE 0
  IN IF limited = NoInt \/ rest <= limited THEN rest ELSE limited

\* C15: count() returns the number of records matching the builder's filter
\* after dropping the first `skip` matches and capping at `limit`.
C15_CountPaged ==
  \A r \in Refs : (outcome.op = "count" /\ outcome.on = r) =>
    /\ outcome.raised = "none"
    /\ result = <<Paged(Cardinality(MatchingAt(storage, managers[r].filter)),
                        managers[r].skip, managers[r].limit)>>

\* the same for every limit other than 0
C15_CountPagedPositiveLimit ==
  \A r \in Refs : (outcome.op = "count" /\ outcome.on = r /\ managers[r].limit # 0) =>
    /\ outcome.raised = "none"
    /\ result = <<Paged(Cardinality(MatchingAt(storage, managers[r].filter)),
                        managers[r].skip, managers[r].limit)>>

\* the k-th smallest position of the set S of positions
Nth(S, k) == CHOOSE x \in S : Cardinality({y \in S : y <= x}) = k

\* C16: all() returns, in storage order, the documents of the records
\* matching the builder's filter, the first `skip` matches dropped and at
\* most `limit` of the rest kept, whatever the order in which limit and skip
\* were set: min(limit, max(0, m - skip)) documents, an absent limit meaning
\* no cap.
C16_AllPaged ==
  \A r \in Refs : (outcome.op = "all" /\ outcome.on = r) =>
    LET S == MatchingAt(storage, managers[r].filter)
        dropped == IF managers[r].skip = NoInt THEN 0 ELSE managers[r].skip
    IN /\ outcome.raised = "none"
       /\ Len(result) = Paged(Cardinality(S), managers[r].skip, managers[r].limit)
       /\ \A i \in 1..Len(result) :
            result[i][ID] = storage[Nth(S, dropped + i)][WireId]

\* all() after skip(1) and limit(1) on two matches returned the second one
C16_Witness ==
  /\ outcome.op = "all" /\ outcome.raised = "none"
  /\ managers["chained"].skip = 1 /\ managers["chained"].limit = 1
  /\ Cardinality(MatchingAt(storage, managers["chained"].filter)) = 2
  /\ Len(result) = 1
  /\ result[1][ID] = storage[2][WireId]

\* the data fields a projection p leaves out of the returned records
ProjectedOut(p) ==
  IF Inclusion(p) THEN DataFields \ DOMAIN p.dict
  ELSE {f \in DataFields : f \in DOMAIN p.dict}

\* the last call was the read operation op on builder r, which carries a
\* projection, and it found something to return
ReadFound(op, r) ==
  /\ outcome.op = op /\ outcome.on = r
  /\ ~managers[r].projected_fields.none
  /\ outcome.raised \notin {"DocumentDoestNotExists", "StopAsyncIteration", "InvalidId"}

\* the last call returned documents whose projected-out fields hold their
\* schema defaults
ReturnedDefaults(r) ==
  /\ outcome.raised = "none"
  /\ \A i \in 1..Len(result) :
       \A f \in ProjectedOut(managers[r].projected_fields) :
         result[i][f] = Schema[f].default

\* C17: on a builder with an only/exclude projection every read terminal
\* operation (all, first, get, cursor next and to_list) returns documents
\* whose projected-out fields hold their schema defaults, and none fails
\* because a required field is missing from the projected record.
C17_ReadsMaterialize ==
  \A r \in Refs : \A op \in {"all", "first", "get", "next", "to_list"} :
    ReadFound(op, r) => ReturnedDefaults(r)

\* the same for the read operations other than get
C17_ReadsButGetMaterialize ==
  \A r \in Refs : \A op \in {"all", "first", "next", "to_list"} :
    ReadFound(op, r) => ReturnedDefaults(r)

\* C18: the manager's delete() removes exactly the records matching the
\* builder's filter (all of them under the empty filter), whatever skip,
\* limit and projection the builder carries, returns their number, and
\* leaves the other records as they are.
C18_ManagerDeleteByFilter ==
  [][ \A r \in Refs : (outcome'.op = "manager_delete" /\ outcome'.on = r) =>
        LET S == MatchingAt(storage, managers[r].filter) IN
        /\ outcome'.raised = "none"
        /\ result' = <<Cardinality(S)>>
        /\ Len(storage') = Len(storage) - Cardinality(S)
        /\ storage' = SelectSeq(storage, LAMBDA rec :
                         \E k \in DOMAIN managers[r].filter : rec[k] # managers[r].filter[k])
        /\ managers' = managers ]_vars

\* a delete under the empty filter removed both records although the builder
\* carries skip(1), limit(1) and a projection
C18_Witness ==
  /\ outcome.op = "manager_delete"
  /\ managers["chained"].skip = 1 /\ managers["chained"].limit = 1
  /\ ~managers["chained"].projected_fields.none
  /\ managers["chained"].filter = EmptyDict
  /\ result = <<2>>
  /\ storage = <<>>

\* a delete by filter removed the matching record and kept the other one
C18_OtherKeptReached ==
  /\ outcome.op = "manager_delete"
  /\ managers["chained"].filter = [age |-> "a1"]
  /\ result = <<1>>
  /\ Len(storage) = 1 /\ storage[1]["age"] = "a0"

----------------------------------------------------------------------------
(* mongo_odm.config: the configuration singleton *)

\* the application holds at most MaxClients motor clients and as many
\* database names
MaxClients == 2
ClientTable == <<"c1", "c2", "c3">>
DbNameTable == <<"db1", "db2", "db3">>
Clients == {ClientTable[i] : i \in 1..MaxClients}
DbNames == {DbNameTable[i] : i \in 1..MaxClients}

\* the arguments of a configure call, as kept in the outcome
ConfigureArgs(motor_client, db_name) ==
  [motor_client |-> motor_client, db_name |-> db_name]

\* configure's body: each argument is tested and then stored, the client
\* first
Configure(motor_client, db_name) ==
  IF motor_client = NULL
    THEN [config |-> config, raised |-> "ImproperlyConfigured"]
    ELSE IF db_name = NULL
      THEN [config |-> [config EXCEPT !.motor_client = motor_client],
            raised |-> "ImproperlyConfigured"]
      ELSE [config |-> [motor_client |-> motor_client, db_name |-> db_name],
            raised |-> "none"]

\* configure(motor_client, db_name)
configure(motor_client, db_name) ==
  /\ config' = Configure(motor_client, db_name).config
  /\ configured' = (configured \/ Configure(motor_client, db_name).raised = "none")
  /\ outcome' = [Raised("configure", "mongo_odm", "config", "config", {},
                        Configure(motor_client, db_name).raised)
                   EXCEPT !.kwargs = ConfigureArgs(motor_client, db_name)]
  /\ UNCHANGED <<builderVars, storeVars, closed, declared, registry, tasks>>

\* disconnect(): the stored client, if any, is closed; the globals stay
disconnect ==
  /\ closed' = IF config.motor_client # NULL
                 THEN closed \cup {config.motor_client} ELSE closed
  /\ outcome' = Returned("disconnect", "mongo_odm", "config", "config", {})
  /\ UNCHANGED <<builderVars, storeVars, config, configured, declared, registry, tasks>>

\* get_motor_client(): the stored client, ImproperlyConfigured when None
get_motor_client ==
  /\ IF config.motor_client = NULL
       THEN /\ outcome' = Raised("get_motor_client", "mongo_odm", "config", "config", {},
                                 "ImproperlyConfigured")
            /\ UNCHANGED result
       ELSE /\ outcome' = Returned("get_motor_client", "mongo_odm", "config", "config", {})
            /\ result' = <<config.motor_client>>
  /\ UNCHANGED <<builderVars, storage, docs, nextId, saves, envVars>>

\* get_db_name(): the stored name, ImproperlyConfigured when None
get_db_name ==
  /\ IF config.db_name = NULL
       THEN /\ outcome' = Raised("get_db_name", "mongo_odm", "config", "config", {},
                                 "ImproperlyConfigured")
            /\ UNCHANGED result
       ELSE /\ outcome' = Returned("get_db_name", "mongo_odm", "config", "config", {})
            /\ result' = <<config.db_name>>
  /\ UNCHANGED <<builderVars, storage, docs, nextId, saves, envVars>>

NextConfig ==
  \/ \E c \in Clients \cup {NULL}, d \in DbNames \cup {NULL} : configure(c, d)
  \/ disconnect
  \/ get_motor_client
  \/ get_db_name

\* the state at import of mongo_odm.config: nothing is configured and no
\* document class is declared
InitConfig ==
  /\ managers = [r \in Refs |-> QueryManager]
  /\ motor = NewMotorManager
  /\ outcome = NoOutcome
  /\ storage = <<>>
  /\ docs = [d \in DocRefs |-> NoDoc]
  /\ nextId = 0
  /\ result = <<>>
  /\ saves = [d \in DocRefs |-> 0]
  /\ config = Unconfigured
  /\ closed = {}
  /\ configured = FALSE
  /\ declared = {}
  /\ registry = EmptyDict
  /\ tasks = [t \in Tasks |-> IdleTask]

SpecConfig == InitConfig /\ [][NextConfig]_vars

\* a step that is a call of one of the two getters
GetterStep == outcome'.op \in {"get_motor_client", "get_db_name"}

\* C19: until a configure call has succeeded both getters raise
\* ImproperlyConfigured; configure raises ImproperlyConfigured when its
\* client or its database name is null; directly after a successful
\* configure(c, d) the getters return c and d.
C19_ConfigureThenGet ==
  [][ /\ (GetterStep /\ ~configured) => outcome'.raised = "ImproperlyConfigured"
      /\ (outcome'.op = "configure" /\ NULL \in {outcome'.kwargs.motor_client,
                                                 outcome'.kwargs.db_name})
           => outcome'.raised = "ImproperlyConfigured"
      /\ (GetterStep /\ outcome.op = "configure" /\ outcome.raised = "none") =>
           /\ outcome'.raised = "none"
           /\ result' = <<IF outcome'.op = "get_motor_client"
                            THEN outcome.kwargs.motor_client
                            ELSE outcome.kwargs.db_name>> ]_vars

\* the getters and configure's argument checks apart from the client a
\* failed configure leaves behind
C19_GettersFollowGlobals ==
  [][ /\ (outcome'.op = "get_db_name" /\ ~configured)
           => outcome'.raised = "ImproperlyConfigured"
      /\ (outcome'.op = "get_motor_client" /\ config.motor_client = NULL)
           => outcome'.raised = "ImproperlyConfigured"
      /\ (outcome'.op = "configure" /\ NULL \in {outcome'.kwargs.motor_client,
                                                 outcome'.kwargs.db_name})
           => outcome'.raised = "ImproperlyConfigured"
      /\ (GetterStep /\ outcome.op = "configure" /\ outcome.raised = "none") =>
           /\ outcome'.raised = "none"
           /\ result' = <<IF outcome'.op = "get_motor_client"
                            THEN outcome.kwargs.motor_client
                            ELSE outcome.kwargs.db_name>> ]_vars

----------------------------------------------------------------------------
(* mongo_odm.managers.MongoBaseManager.bulk_create and the records written *)

\* insert_many(payloads): each payload is appended under a fresh identifier,
\* the identifiers being IdTable[n + 1], IdTable[n + 2], ...
RECURSIVE InsertMany(_, _, _)
InsertMany(coll, payloads, n) ==
  IF payloads = <<>> THEN coll
  ELSE InsertMany(Append(coll, RecordOf(IdTable[n + 1], Head(payloads))),
                  Tail(payloads), n + 1)

\* await Person.objects.bulk_create(objs): every object's dict() is
\* inserted, then each object takes its inserted identifier, in list order
bulk_create(objs) ==
  /\ \A i \in 1..Len(objs) : docs[objs[i]] # NoDoc
  /\ nextId + Len(objs) <= MaxDocs
  /\ LET parsed_objs == [i \in 1..Len(objs) |-> AsDict(DictOf(docs[objs[i]], {}))]
     IN storage' = InsertMany(storage, parsed_objs, nextId)
  /\ docs' = [d \in DocRefs |->
                IF \E i \in 1..Len(objs) : objs[i] = d
                  THEN [docs[d] EXCEPT ![ID] =
                          IdTable[nextId + CHOOSE i \in 1..Len(objs) :
                                     objs[i] = d /\ \A j \in 1..Len(objs) : objs[j] = d => j <= i]]
                  ELSE docs[d]]
  /\ nextId' = nextId + Len(objs)
  /\ saves' = [d \in DocRefs |-> IF \E i \in 1..Len(objs) : objs[i] = d THEN 0 ELSE saves[d]]
  /\ outcome' = Returned("bulk_create", "mongo_odm", "objects", "objects", {})
  /\ UNCHANGED <<builderVars, result, envVars>>

\* collection.delete_many({"_id": {"$in": ids}}): a record goes when its
\* `_id` equals an element of ids; a string never equals a native identifier
DeleteIn(coll, ids) == SelectSeq(coll, LAMBDA rec : rec[WireId] \notin ids)

\* await Person.objects.bulk_delete(ids); the count is returned as the one
\* element of result
bulk_delete(ids) ==
  /\ storage' = DeleteIn(storage, ids)
  /\ result' = <<Len(storage) - Len(storage')>>
  /\ outcome' = [Returned("bulk_delete", "mongo_odm", "objects", "objects", {})
                   EXCEPT !.kwargs = [ids |-> ids]]
  /\ UNCHANGED <<builderVars, docs, nextId, saves, envVars>>

\* the identifiers the application hands to bulk_delete: of the first two
\* inserted records, natively or as 24-hex strings, at most two at a time
BulkDeleteArgs ==
  {ids \in SUBSET {IdTable[1], HexOf[IdTable[1]], IdTable[2], HexOf[IdTable[2]]} :
     Cardinality(ids) \in 1..2}

\* the lists of objects the application hands to bulk_create
BulkArgs == {<<d>> : d \in DocRefs} \cup {<<d, d>> : d \in DocRefs}

NextBulk ==
  \/ \E d \in DocRefs, n \in FieldValues["name"], a \in FieldValues["age"] \cup {NULL} :
        new(d, n, a)
  \/ \E d \in DocRefs, F \in SaveArgs : save(d, F)
  \/ \E objs \in BulkArgs : bulk_create(objs)
  \/ \E ids \in BulkDeleteArgs : bulk_delete(ids)
  \/ \E d \in DocRefs : delete(d)
  \/ \E d \in DocRefs : reload(d)
  \/ first("objects")
  \/ all("objects")

SpecBulk == Init /\ [][NextBulk]_vars

\* C20: every record written by save() or bulk_create() carries the
\* identifier under `_id` and has no `id` key, and every document read back
\* exposes the identifier of its record under `id`.
C20_IdentifierUnderWireKey ==
  /\ \A i \in 1..Len(storage) :
       storage[i][WireId] \in ObjectIds /\ storage[i][ID] = ABSENT
  /\ (outcome.op \in {"first", "all"} /\ outcome.raised = "none") =>
       \A i \in 1..Len(result) : result[i][ID] = storage[i][WireId]

\* the record a save() writes has no `id` key and carries the document's
\* identifier under `_id`
C20_SaveWritesWireKey ==
  [][ \A d \in DocRefs : SaveStep(d) =>
        \E i \in 1..Len(storage') :
          /\ storage'[i] = Written(docs'[d], outcome'.fields)
          /\ storage'[i][WireId] = docs'[d][ID]
          /\ storage'[i][ID] = ABSENT ]_vars

\* every document read back exposes the identifier of its record under `id`
C20_ReadsExposeId ==
  (outcome.op \in {"first", "all"} /\ outcome.raised = "none") =>
    \A i \in 1..Len(result) : result[i][ID] = storage[i][WireId]

\* a reload() right after bulk_create assigned the record's null `id` key
\* to the document's identifier
C20_ReloadLosesIdReached ==
  \E d \in DocRefs :
    /\ outcome.op = "reload" /\ outcome.on = d /\ outcome.raised = "none"
    /\ docs[d][ID] = NULL
    /\ Len(storage) >= 1

\* a step that is a save() or a reload() call on document d, whose
\* identifier is well-formed and carried by a stored record
PersistedStep(d) ==
  /\ outcome'.op \in {"save", "reload"} /\ outcome'.on = d
  /\ docs[d][ID] \in ObjectIds
  /\ Carrying(storage, docs[d][ID]) # {}

\* C21: once a document is persisted, by save() or by bulk_create(), every
\* later save() and reload() on it (no assignment to `id`, its record still
\* present) leaves its identifier non-null and as it was.
C21_IdentifierStable ==
  [][ \A d \in DocRefs : PersistedStep(d) =>
        /\ docs'[d][ID] # NULL
        /\ docs'[d][ID] = docs[d][ID] ]_vars

\* the same for the documents whose record was written by save(): the
\* record has no `id` key
C21_SavedIdentifierStable ==
  [][ \A d \in DocRefs :
        (PersistedStep(d) /\ FindById(storage, docs[d][ID])[ID] = ABSENT) =>
          /\ docs'[d][ID] # NULL
          /\ docs'[d][ID] = docs[d][ID] ]_vars

\* a reload() after a save() kept the identifier the save assigned
C21_SavedReloadReached ==
  \E d \in DocRefs :
    /\ outcome.op = "reload" /\ outcome.on = d /\ outcome.raised = "none"
    /\ docs[d][ID] \in ObjectIds
    /\ saves[d] >= 1

----------------------------------------------------------------------------
(* construct on a document type with document-typed fields, the shape of   *)
(* the tests' BDocument:                                                   *)
(*   class Holder(MongoDocument):                                          *)
(*       a: Person                                                         *)
(*       b: Optional[Person] = None                                        *)
(*       f: str                                                            *)
(* A raw value is null, a string or a mapping; a constructed field holds   *)
(* a raw value or a sub-document.                                          *)

HolderFields == {ID, "a", "b", "f"}

\* pydantic's ModelField of each field; `document` is TRUE when outer_type_
\* is a document type (for Optional[Person] outer_type_ is Person)
HolderSchema ==
  [f \in HolderFields |->
     CASE f = ID  -> [alias |-> WireId, required |-> FALSE, document |-> FALSE]
       [] f = "a" -> [alias |-> "a",    required |-> TRUE,  document |-> TRUE]
       [] f = "b" -> [alias |-> "b",    required |-> FALSE, document |-> TRUE]
       [] f = "f" -> [alias |-> "f",    required |-> TRUE,  document |-> FALSE]]

RawNull == [kind |-> "null", str |-> NULL, map |-> EmptyDict]
RawStr(s) == [kind |-> "str", str |-> s, map |-> EmptyDict]
RawMap(m) == [kind |-> "map", str |-> NULL, map |-> m]

\* the value of a constructed field: a raw value kept as it is, or the
\* document a nested construct returned
Value(raw) == [kind |-> "raw", raw |-> raw, doc |-> NoDoc]
SubDocument(doc) == [kind |-> "doc", raw |-> RawNull, doc |-> doc]

\* field.get_default(): None for each of the four fields
HolderDefault == Value(RawNull)

\* one turn of construct's loop: `outer_type_.construct(**values[key])` is
\* tried first; a type without construct raises AttributeError, which is
\* caught; a document type called with ** on a non-mapping raises TypeError,
\* which is not
ConstructHolderField(f, values) ==
  LET key == HolderSchema[f].alias IN
  IF key \in DOMAIN values
    THEN IF HolderSchema[f].document
           THEN IF values[key].kind = "map"
                  THEN [value |-> SubDocument(construct(values[key].map)), raised |-> "none"]
                  ELSE [value |-> HolderDefault, raised |-> "TypeError"]
           ELSE IF values[key].kind = "null" /\ ~HolderSchema[f].required
                  THEN [value |-> HolderDefault, raised |-> "none"]
                  ELSE [value |-> Value(values[key]), raised |-> "none"]
    ELSE [value |-> HolderDefault, raised |-> "none"]

\* Holder.construct(**values)
construct_holder(values) ==
  /\ IF \E f \in HolderFields : ConstructHolderField(f, values).raised # "none"
       THEN /\ outcome' = [Raised("construct_holder", "mongo_odm", "Holder", "Holder", {},
                                  "TypeError") EXCEPT !.kwargs = values]
            /\ UNCHANGED result
       ELSE /\ result' = <<[f \in HolderFields |-> ConstructHolderField(f, values).value]>>
            /\ outcome' = [Returned("construct_holder", "mongo_odm", "Holder", "Holder", {})
                             EXCEPT !.kwargs = values]
  /\ UNCHANGED <<builderVars, storage, docs, nextId, saves, envVars>>

\* the raw mappings of a Person found under a document-typed key: one with
\* a null under the optional field, one with the identifier only
NestedRawValues == {[name |-> "n0", age |-> NULL], [k \in {WireId} |-> Malformed]}

\* the raw mappings handed to Holder.construct: each key left out, null, a
\* string or (for the document-typed keys) a raw mapping of a Person
HolderRawValues ==
  LET opt(k, vs) == {EmptyDict} \cup {[x \in {k} |-> v] : v \in vs}
      merge(m, n) == [x \in DOMAIN m \cup DOMAIN n |-> IF x \in DOMAIN m THEN m[x] ELSE n[x]]
      scalars == {RawNull, RawStr("n0")}
      nested == scalars \cup {RawMap(m) : m \in NestedRawValues}
  IN {merge(i, merge(a, merge(b, f))) :
        i \in opt(WireId, {RawStr(Malformed)}),
        a \in opt("a", nested),
        b \in opt("b", nested),
        f \in opt("f", scalars)}

NextConstruct ==
  \E values \in HolderRawValues : construct_holder(values)

SpecConstruct == Init /\ [][NextConstruct]_vars

\* the last call was Holder.construct(**values)
Constructed == outcome.op = "construct_holder"

\* the document of a raw Person mapping as the claim describes it: a key left
\* out and a null under a non-required field give the default, any other
\* value is kept
Materialized(m) ==
  [f \in DeclaredFields |->
     IF Schema[f].alias \notin DOMAIN m THEN Schema[f].default
     ELSE IF m[Schema[f].alias] = NULL /\ ~Schema[f].required THEN Schema[f].default
     ELSE m[Schema[f].alias]]

\* the value the claim gives field f of Holder on the raw mapping values
Claimed(f, values) ==
  LET key == HolderSchema[f].alias IN
  IF key \notin DOMAIN values THEN HolderDefault
  ELSE IF values[key].kind = "map" /\ HolderSchema[f].document
    THEN SubDocument(Materialized(values[key].map))
  ELSE IF values[key].kind = "null" /\ ~HolderSchema[f].required THEN HolderDefault
  ELSE Value(values[key])

\* C22: construct never fails and sets every declared field: the default
\* when the wire alias is left out; the recursively constructed
\* sub-document for a mapping under a document-typed field; the default for
\* a null under a non-required field, document-typed or not; the raw value
\* as it is otherwise.
C22_ConstructSetsFields ==
  Constructed =>
    /\ outcome.raised = "none"
    /\ Len(result) = 1
    /\ \A f \in HolderFields : result[1][f] = Claimed(f, outcome.kwargs)

\* a document-typed key holds something that is not a mapping
NonMappingUnderDocument(values) ==
  \E f \in HolderFields :
    /\ HolderSchema[f].document
    /\ HolderSchema[f].alias \in DOMAIN values
    /\ values[HolderSchema[f].alias].kind # "map"

\* the same when every document-typed key that is present holds a mapping;
\* a null or a string under a document-typed key raises TypeError
C22_ConstructSetsFieldsOfMappings ==
  Constructed =>
    IF NonMappingUnderDocument(outcome.kwargs)
      THEN outcome.raised = "TypeError"
      ELSE /\ outcome.raised = "none"
           /\ Len(result) = 1
           /\ \A f \in HolderFields : result[1][f] = Claimed(f, outcome.kwargs)

\* construct returned a document whose sub-document took the default of a
\* field stored as null and whose required field kept its null
C22_NestedReached ==
  /\ Constructed /\ outcome.raised = "none"
  /\ outcome.kwargs = [a |-> RawMap([name |-> "n0", age |-> NULL]), f |-> RawNull]
  /\ result[1]["a"].doc = [id |-> NULL, name |-> "n0", age |-> "a0"]
  /\ result[1]["b"] = HolderDefault
  /\ result[1]["f"] = Value(RawNull)

----------------------------------------------------------------------------
(* The payload save() writes *)

\* C23: after a successful save(F...) every stored record under the
\* document's identifier holds exactly the data fields not named in F, each
\* with the document's current value; the manager-valued fields, the fields
\* in F and the `id` key are absent, also when the save replaced a record.
C23_SavedPayload ==
  [][ \A d \in DocRefs : SaveStep(d) =>
        LET F == outcome'.fields
            under == Carrying(storage', docs'[d][ID])
        IN /\ under # {}
           /\ \A i \in under : \A k \in RecordKeys \ {WireId} :
                storage'[i][k] = IF k \in DataFields \ F THEN docs'[d][k] ELSE ABSENT ]_vars

\* a save("age") that replaced the record of an earlier save: the record
\* under the document's identifier has the name and no age
C23_Witness ==
  \E d \in DocRefs :
    /\ outcome.op = "save" /\ outcome.on = d /\ outcome.path = "replaced"
    /\ outcome.fields = {"age"}
    /\ saves[d] = 2
    /\ docs[d]["age"] = "a1"
    /\ FindById(storage, docs[d][ID])["age"] = ABSENT
    /\ FindById(storage, docs[d][ID])["name"] = docs[d]["name"]

----------------------------------------------------------------------------
(* Declaration of document classes: the metaclass binds the managers and   *)
(* registers the class (mongo_odm.documents, mongo_odm.registry).          *)

\* the document classes of the application, by class name, and a class that
\* is not a document type
DocumentClasses == {"Person", "Other"}
PlainClasses == {"T"}

\* the reference holding each document class's `.objects`
ObjectsOf == [c \in DocumentClasses |-> IF c = "Person" THEN "objects" ELSE "other_objects"]

\* the manager a reference names exists: `.objects` of a class that is not
\* declared yet does not
Exists(r) == \A c \in DocumentClasses : r = ObjectsOf[c] => c \in declared

\* register(document_cls): TypeError for a class that is not a document
\* type; a name already in the registry is left as it is
Register(reg, document_cls) ==
  IF document_cls \notin DocumentClasses
    THEN [registry |-> reg, raised |-> "TypeError"]
    ELSE IF document_cls \in DOMAIN reg
      THEN [registry |-> reg, raised |-> "none"]
      ELSE [registry |-> [n \in DOMAIN reg \cup {document_cls} |->
                            IF n = document_cls THEN document_cls ELSE reg[n]],
            raised |-> "none"]

\* r.add_to_class(document_class) called by the application
add_to_class(r, document_class) ==
  /\ Exists(r)
  /\ document_class \in declared
  /\ managers' = [managers EXCEPT ![r] = AddToClass(@, document_class)]
  /\ outcome' = [Returned("add_to_class", "mongo_odm", r, r, {})
                   EXCEPT !.kwargs = [document_class |-> document_class]]
  /\ UNCHANGED <<motor, storeVars, envVars>>

\* `class <cls>(MongoDocument): <attr> = <manager> ...`, attrs being the
\* references of the managers in the class body: the metaclass's __new__
declare(cls, attrs) ==
  /\ cls \notin declared
  /\ \A r \in attrs : Exists(r)
  /\ IF config.db_name = NULL
       THEN /\ outcome' = Raised("declare", "mongo_odm", cls, cls, attrs,
                                 "ImproperlyConfigured")
            /\ UNCHANGED <<managers, declared, registry>>
       ELSE /\ managers' = [r \in Refs |->
                 IF r = ObjectsOf[cls] THEN AddToClass(QueryManager, cls)
                 ELSE IF r \in attrs THEN AddToClass(managers[r], cls)
                 ELSE managers[r]]
            /\ declared' = declared \cup {cls}
            /\ registry' = Register(registry, cls).registry
            /\ outcome' = Returned("declare", "mongo_odm", cls, cls, attrs)
  /\ UNCHANGED <<motor, storeVars, config, closed, configured, tasks>>

\* register(document_cls) called by the application
register(document_cls) ==
  /\ registry' = Register(registry, document_cls).registry
  /\ outcome' = [Raised("register", "mongo_odm", "registry", "registry", {},
                        Register(registry, document_cls).raised)
                   EXCEPT !.kwargs = [document_cls |-> document_cls]]
  /\ UNCHANGED <<builderVars, storeVars, config, closed, configured, declared, tasks>>

\* unregister(document_cls): `del DOCUMENTS_REGISTRY[name]`
unregister(document_cls) ==
  /\ IF document_cls \in DOMAIN registry
       THEN /\ registry' = [n \in DOMAIN registry \ {document_cls} |-> registry[n]]
            /\ outcome' = [Returned("unregister", "mongo_odm", "registry", "registry", {})
                             EXCEPT !.kwargs = [document_cls |-> document_cls]]
       ELSE /\ outcome' = [Raised("unregister", "mongo_odm", "registry", "registry", {},
                                  "KeyError")
                             EXCEPT !.kwargs = [document_cls |-> document_cls]]
            /\ UNCHANGED registry
  /\ UNCHANGED <<builderVars, storeVars, config, closed, configured, declared, tasks>>

\* clear_registry()
clear_registry ==
  /\ registry' = EmptyDict
  /\ outcome' = Returned("clear_registry", "mongo_odm", "registry", "registry", {})
  /\ UNCHANGED <<builderVars, storeVars, config, closed, configured, declared, tasks>>

\* the managers a class body can hold and the application can rebind
BodyRefs == {"custom_manager"}
\* the builders chains start from
BoundReceivers == {"objects", "custom_manager", "other_objects"}

NextBind ==
  \/ \E cls \in DocumentClasses, attrs \in SUBSET BodyRefs : declare(cls, attrs)
  \/ \E r \in Refs \ {"base"}, cls \in DocumentClasses : add_to_class(r, cls)
  \/ \E r \in {x \in BoundReceivers : Exists(x)}, fields \in TerminalFieldArgs :
        only(r, "chained", fields)
  \/ \E r \in {x \in BoundReceivers : Exists(x)}, fields \in TerminalFieldArgs :
        exclude(r, "chained", fields)
  \/ \E r \in {x \in BoundReceivers : Exists(x)}, kw \in QueryFilterArgs :
        filter(r, "chained", kw)
  \/ \E r \in {x \in BoundReceivers : Exists(x)}, n \in 1..MaxPage : limit(r, "chained", n)
  \/ \E r \in {x \in BoundReceivers : Exists(x)}, n \in 1..MaxPage : skip(r, "chained", n)
  \/ \E cls \in declared \cup PlainClasses : register(cls)
  \/ \E cls \in declared : unregister(cls)
  \/ clear_registry

SpecBind == Init /\ [][NextBind]_vars

\* a step that is one of the five configuration calls and returned
DerivingStep ==
  outcome'.op \in {"only", "exclude", "filter", "limit", "skip"} /\ outcome'.raised = "none"

\* C24: a builder's document class is set once: no add_to_class and no
\* declaration of another document class changes the class of a bound
\* builder; a builder derived by only/exclude/filter/limit/skip has the
\* class of its receiver; every declared class's `.objects` is bound to
\* that class.
C24_BoundOnce ==
  [][ /\ outcome'.op \in {"add_to_class", "declare"} =>
           \A r \in Refs : managers[r].document_class # NULL =>
             managers'[r].document_class = managers[r].document_class
      /\ DerivingStep =>
           /\ managers'[outcome'.to].document_class = managers[outcome'.on].document_class
           /\ managers'[outcome'.on] = managers[outcome'.on]
      /\ \A c \in declared' : managers'[ObjectsOf[c]].document_class = c ]_vars

\* what holds of the binding: a derived builder has the class of its
\* receiver; a declaration binds the new class's `.objects` to the class
\* and rebinds exactly the managers of its body; add_to_class changes the
\* class of its receiver only
C24_BoundUnlessRebound ==
  [][ /\ DerivingStep =>
           /\ managers'[outcome'.to].document_class = managers[outcome'.on].document_class
           /\ managers'[outcome'.on] = managers[outcome'.on]
      /\ (outcome'.op = "declare" /\ outcome'.raised = "none") =>
           /\ managers'[ObjectsOf[outcome'.on]].document_class = outcome'.on
           /\ \A r \in Refs \ ({ObjectsOf[outcome'.on]} \cup outcome'.fields) :
                managers'[r] = managers[r]
           /\ \A r \in outcome'.fields : managers'[r].document_class = outcome'.on
      /\ outcome'.op = "add_to_class" =>
           \A r \in Refs \ {outcome'.on} : managers'[r] = managers[r] ]_vars

\* Person's custom_manager, put in the body of Other as well, is bound to
\* Other, and so is a builder derived from it
C24_SharedReboundReached ==
  /\ outcome.op = "filter" /\ outcome.on = "custom_manager"
  /\ managers["custom_manager"].document_class = "Other"
  /\ managers["chained"].document_class = "Other"
  /\ managers["objects"].document_class = "Person"
  /\ managers["other_objects"].document_class = "Other"

----------------------------------------------------------------------------
(* Two tasks, each building a chain from the shared `.objects` and running *)
(* all().  A task keeps the builder its latest call returned in a          *)
(* reference of its own; each configuration call is one step; all() is two *)
(* steps: the find call it makes from the builder's fields before it       *)
(* awaits, and the fetch it awaits.                                        *)

TaskRef == [t \in Tasks |-> IF t = "t1" THEN "base" ELSE "chained"]

\* the configurations a task chooses from
Plans ==
  {[filter |-> kw, skip |-> s, limit |-> l, fields |-> F] :
     kw \in QueryFilterArgs, s \in 1..MaxPage, l \in 1..MaxPage, F \in TerminalFieldArgs}

\* the task starts (again) with a configuration of its choice
task_start(t, plan) ==
  /\ tasks[t].pc \in {"idle", "done"}
  /\ tasks' = [tasks EXCEPT ![t] = [IdleTask EXCEPT !.pc = "start", !.plan = plan]]
  /\ UNCHANGED <<builderVars, outcome, storeVars, config, closed, configured,
                 declared, registry>>

\* b = Person.objects.filter(**plan.filter)
task_filter(t) ==
  /\ tasks[t].pc = "start"
  /\ managers' = [managers EXCEPT ![TaskRef[t]] =
        [Clone(managers["objects"]) EXCEPT !.filter = tasks[t].plan.filter]]
  /\ tasks' = [tasks EXCEPT ![t].pc = "filtered"]
  /\ UNCHANGED <<motor, outcome, storeVars, config, closed, configured,
                 declared, registry>>

\* b = b.skip(plan.skip)
task_skip(t) ==
  /\ tasks[t].pc = "filtered"
  /\ managers' = [managers EXCEPT ![TaskRef[t]] =
        [Clone(managers[TaskRef[t]]) EXCEPT !.skip = tasks[t].plan.skip]]
  /\ tasks' = [tasks EXCEPT ![t].pc = "skipped"]
  /\ UNCHANGED <<motor, outcome, storeVars, config, closed, configured,
                 declared, registry>>

\* b = b.limit(plan.limit)
task_limit(t) ==
  /\ tasks[t].pc = "skipped"
  /\ managers' = [managers EXCEPT ![TaskRef[t]] =
        [Clone(managers[TaskRef[t]]) EXCEPT !.limit = tasks[t].plan.limit]]
  /\ tasks' = [tasks EXCEPT ![t].pc = "limited"]
  /\ UNCHANGED <<motor, outcome, storeVars, config, closed, configured,
                 declared, registry>>

\* b = b.only(*plan.fields)
task_only(t) ==
  /\ tasks[t].pc = "limited"
  /\ managers' = [managers EXCEPT ![TaskRef[t]] =
        [Clone(managers[TaskRef[t]]) EXCEPT
           !.projected_fields = ProjectionWith(@, tasks[t].plan.fields, 1)]]
  /\ tasks' = [tasks EXCEPT ![t].pc = "projected"]
  /\ UNCHANGED <<motor, outcome, storeVars, config, closed, configured,
                 declared, registry>>

\* b.all() up to its await: find, skip and to_list are called with the
\* builder's filter, projection, skip and limit
task_all_find(t) ==
  /\ tasks[t].pc = "projected"
  /\ tasks' = [tasks EXCEPT ![t].pc = "awaiting",
                            ![t].query = [filter |-> managers[TaskRef[t]].filter,
                                          projected_fields |-> managers[TaskRef[t]].projected_fields,
                                          skip |-> managers[TaskRef[t]].skip,
                                          limit |-> managers[TaskRef[t]].limit]]
  /\ UNCHANGED <<builderVars, outcome, storeVars, config, closed, configured,
                 declared, registry>>

\* the awaited to_list completes: the cursor's records are materialized
task_all_fetch(t) ==
  /\ tasks[t].pc = "awaiting"
  /\ tasks' = [tasks EXCEPT ![t].pc = "done",
                            ![t].result = AllOf(storage, tasks[t].query)]
  /\ UNCHANGED <<builderVars, outcome, storeVars, config, closed, configured,
                 declared, registry>>

NextTasks ==
  \/ \E t \in Tasks, plan \in Plans : task_start(t, plan)
  \/ \E t \in Tasks : task_filter(t)
  \/ \E t \in Tasks : task_skip(t)
  \/ \E t \in Tasks : task_limit(t)
  \/ \E t \in Tasks : task_only(t)
  \/ \E t \in Tasks : task_all_find(t)
  \/ \E t \in Tasks : task_all_fetch(t)

SpecTasks == InitTerminal /\ [][NextTasks]_vars

\* C25: whatever the interleaving of two tasks chaining from the shared
\* `.objects`, the query each task's all() sends carries exactly the filter,
\* projection, skip and limit the task configured, its result is the page
\* of the matches the task asked for, and `.objects` stays as declared.
C25_TasksIsolated ==
  /\ managers["objects"] = NewManager
  /\ \A t \in Tasks :
       LET plan == tasks[t].plan
           S == MatchingAt(storage, plan.filter)
       IN /\ tasks[t].pc \in {"awaiting", "done"} =>
               tasks[t].query =
                 [filter |-> plan.filter,
                  projected_fields |->
                    [none |-> FALSE, dict |-> [k \in plan.fields |-> 1]],
                  skip |-> plan.skip, limit |-> plan.limit]
          /\ tasks[t].pc = "done" =>
               /\ Len(tasks[t].result) = Paged(Cardinality(S), plan.skip, plan.limit)
               /\ \A i \in 1..Len(tasks[t].result) :
                    LET rec == storage[Nth(S, plan.skip + i)] IN
                    /\ tasks[t].result[i][ID] = rec[WireId]
                    /\ \A f \in plan.fields : tasks[t].result[i][f] = rec[f]

\* the first task awaits its fetch under one configuration while the second
\* task, with another filter and projection, is in the middle of its chain
C25_Witness ==
  /\ tasks["t1"].pc = "awaiting" /\ tasks["t2"].pc = "skipped"
  /\ tasks["t1"].plan.filter = [age |-> "a1"] /\ tasks["t2"].plan.filter = EmptyDict
  /\ tasks["t1"].plan.fields # tasks["t2"].plan.fields
  /\ tasks["t1"].query.filter = [age |-> "a1"]
  /\ managers[TaskRef["t2"]].filter = EmptyDict

\* both tasks completed, interleaved, with different results
C25_BothDoneReached ==
  /\ tasks["t1"].pc = "done" /\ tasks["t2"].pc = "done"
  /\ tasks["t1"].plan.filter # tasks["t2"].plan.filter
  /\ Len(tasks["t1"].result) = 1
  /\ Len(tasks["t2"].result) = 1
  /\ tasks["t1"].result # tasks["t2"].result

----------------------------------------------------------------------------
(* Claims on disconnect, the registry and the frame of the configuration *)

\* C26: disconnect() closes the configured client and returns the singleton
\* to the unconfigured state: a getter called after configure(...) and
\* disconnect() raises ImproperlyConfigured.
C26_DisconnectUnconfigures ==
  [][ /\ (outcome'.op = "disconnect" /\ config.motor_client # NULL)
           => config.motor_client \in closed'
      /\ outcome'.op = "disconnect" => config' = Unconfigured
      /\ (GetterStep /\ outcome.op = "disconnect")
           => outcome'.raised = "ImproperlyConfigured" ]_vars

\* what disconnect() does: it closes the stored client, if there is one, and
\* leaves both globals as they are
C26_DisconnectClosesOnly ==
  [][ outcome'.op = "disconnect" =>
        /\ config.motor_client # NULL => config.motor_client \in closed'
        /\ closed' \subseteq closed \cup {config.motor_client}
        /\ config' = config ]_vars

\* a getter returned the configured value right after disconnect()
C26_StillConfiguredReached ==
  /\ outcome.op = "get_db_name" /\ outcome.raised = "none"
  /\ config.motor_client \in closed
  /\ result = <<config.db_name>>

\* a step that is a register(document_cls) call by the application
RegisterStep == outcome'.op = "register"

\* C27: register of a document class whose name is already in the registry
\* raises AlreadyRegistered, register of a class that is not a document
\* type raises TypeError, and both leave the registry unchanged.
C27_RegisterRejects ==
  [][ RegisterStep =>
        LET cls == outcome'.kwargs.document_cls IN
        /\ (cls \in DocumentClasses /\ cls \in DOMAIN registry) =>
             /\ outcome'.raised = "AlreadyRegistered"
             /\ registry' = registry
        /\ cls \notin DocumentClasses =>
             /\ outcome'.raised = "TypeError"
             /\ registry' = registry ]_vars

\* what register does: a registered name is left alone without any error, a
\* class that is not a document type raises TypeError, and a document class
\* under a free name is added
C27_RegisterKeepsFirst ==
  [][ RegisterStep =>
        LET cls == outcome'.kwargs.document_cls IN
        /\ (cls \in DocumentClasses /\ cls \in DOMAIN registry) =>
             /\ outcome'.raised = "none"
             /\ registry' = registry
        /\ cls \notin DocumentClasses =>
             /\ outcome'.raised = "TypeError"
             /\ registry' = registry
        /\ (cls \in DocumentClasses /\ cls \notin DOMAIN registry) =>
             /\ outcome'.raised = "none"
             /\ DOMAIN registry' = DOMAIN registry \cup {cls}
             /\ registry'[cls] = cls
             /\ \A n \in DOMAIN registry : registry'[n] = registry[n] ]_vars

\* register(T) for a class that is not a document type raised TypeError
\* while the registry holds both document classes
C27_WrongTypeReached ==
  /\ outcome.op = "register" /\ outcome.raised = "TypeError"
  /\ DOMAIN registry = DocumentClasses

\* a second register of a declared class returned without error
C27_TwiceReached ==
  /\ outcome.op = "register" /\ outcome.raised = "none"
  /\ outcome.kwargs.document_cls = "Other"
  /\ DOMAIN registry = DocumentClasses

\* the identifiers the elements of ids denote, natively or as 24-hex strings
Denoted(ids) == {id \in ObjectIds : id \in ids \/ HexOf[id] \in ids}

\* C28: bulk_delete(ids) removes exactly the records whose identifier an
\* element of ids denotes, as a 24-hex string or natively, returns their
\* number and leaves the other records unchanged.
C28_BulkDeleteDenoted ==
  [][ outcome'.op = "bulk_delete" =>
        LET gone == Denoted(outcome'.kwargs.ids) IN
        /\ storage' = SelectSeq(storage, LAMBDA rec : rec[WireId] \notin gone)
        /\ result' = <<Cardinality({i \in 1..Len(storage) : storage[i][WireId] \in gone})>> ]_vars

\* the same for the identifiers given natively: a 24-hex string removes
\* nothing
C28_BulkDeleteNative ==
  [][ outcome'.op = "bulk_delete" =>
        LET gone == outcome'.kwargs.ids \cap ObjectIds IN
        /\ storage' = SelectSeq(storage, LAMBDA rec : rec[WireId] \notin gone)
        /\ result' = <<Cardinality({i \in 1..Len(storage) : storage[i][WireId] \in gone})>> ]_vars

\* bulk_delete of one native identifier removed its record and kept the other
C28_NativeReached ==
  /\ outcome.op = "bulk_delete" /\ outcome.kwargs.ids = {IdTable[1]}
  /\ result = <<1>>
  /\ Len(storage) = 1 /\ storage[1][WireId] = IdTable[2]

\* bulk_delete of the 24-hex string of a stored identifier removed nothing
C28_StringKeptReached ==
  /\ outcome.op = "bulk_delete" /\ outcome.kwargs.ids = {HexOf[IdTable[1]]}
  /\ result = <<0>>
  /\ \E i \in 1..Len(storage) : storage[i][WireId] = IdTable[1]

\* C29: the configuration singleton changes only as a whole and only through
\* configure/disconnect: a configure call that raises ImproperlyConfigured
\* leaves the stored client and the stored database name unchanged, and a
\* step of any other operation leaves them unchanged.
C29_ConfigChangesAsWhole ==
  [][ /\ (outcome'.op = "configure" /\ outcome'.raised = "ImproperlyConfigured")
           => config' = config
      /\ (outcome'.op = "configure" /\ outcome'.raised = "none")
           => config' = outcome'.kwargs
      /\ outcome'.op \notin {"configure", "disconnect"} => config' = config ]_vars

\* the same apart from the client a configure call stores before it fails on
\* a null database name; disconnect writes neither global
C29_OnlyConfigureWrites ==
  [][ /\ (outcome'.op = "configure" /\ outcome'.raised = "ImproperlyConfigured")
           => /\ config'.db_name = config.db_name
              /\ config'.motor_client =
                   IF outcome'.kwargs.motor_client = NULL
                     THEN config.motor_client ELSE outcome'.kwargs.motor_client
      /\ (outcome'.op = "configure" /\ outcome'.raised = "none")
           => config' = outcome'.kwargs
      /\ outcome'.op # "configure" => config' = config ]_vars

\* a failed configure replaced the client of a configured singleton and
\* kept its database name
C29_HalfWrittenReached ==
  /\ outcome.op = "configure" /\ outcome.raised = "ImproperlyConfigured"
  /\ outcome.kwargs.motor_client # NULL
  /\ config.motor_client = outcome.kwargs.motor_client
  /\ config.db_name # NULL
  /\ config # ConfigureArgs(ClientTable[1], DbNameTable[1])
  /\ configured

----------------------------------------------------------------------------
(* Two tasks saving the same document instance.  save() is three steps:    *)
(* the code up to the await (dict(), the pop of id, the test of self.id    *)
(* and the collection call it sends), the collection call the store        *)
(* serves, and the code after the await (the assignment of self.id).       *)

\* save(*excluded_fields) up to its await
task_save_call(t, d, excluded_fields) ==
  /\ tasks[t].pc \in {"idle", "done"}
  /\ docs[d] # NoDoc
  /\ LET self == docs[d]
         json_document == DictOf(self, excluded_fields)
     IN IF json_document[ID] = ABSENT
          THEN tasks' = [tasks EXCEPT ![t] =
                 [IdleTask EXCEPT !.pc = "done",
                                  !.call = [NoCall EXCEPT !.op = "KeyError", !.on = d]]]
          ELSE tasks' = [tasks EXCEPT ![t] =
                 [IdleTask EXCEPT !.pc = "sent",
                                  !.call = [op |-> IF HasValidId(self)
                                                     THEN "replace_one" ELSE "insert_one",
                                            on |-> d,
                                            id |-> json_document[ID],
                                            payload |-> Payload(json_document),
                                            reply |-> NULL]]]
  /\ UNCHANGED <<builderVars, outcome, storeVars, config, closed, configured,
                 declared, registry>>

\* the store serves the awaited insert_one or replace_one
task_save_apply(t) ==
  /\ tasks[t].pc = "sent"
  /\ LET call == tasks[t].call IN
     IF call.op = "insert_one"
       THEN /\ nextId < Len(IdTable)
            /\ storage' = InsertOne(storage, call.payload, IdTable[nextId + 1])
            /\ nextId' = nextId + 1
            /\ tasks' = [tasks EXCEPT ![t].pc = "replied",
                                      ![t].call.reply = IdTable[nextId + 1]]
       ELSE LET new_document == ReplaceOne(storage, call.id, call.payload)
            IN /\ storage' = new_document.coll
               /\ nextId' = nextId
               /\ tasks' = [tasks EXCEPT ![t].pc = "replied",
                                         ![t].call.reply = new_document.upserted_id]
  /\ UNCHANGED <<builderVars, outcome, docs, result, saves, config, closed,
                 configured, declared, registry>>

\* save() after its await: the document takes the inserted or upserted id
task_save_resume(t) ==
  /\ tasks[t].pc = "replied"
  /\ LET call == tasks[t].call IN
     /\ docs' = IF call.op = "insert_one" \/ call.reply # NULL
                  THEN [docs EXCEPT ![call.on][ID] = call.reply]
                  ELSE docs
     /\ saves' = [saves EXCEPT ![call.on] = IF @ = 0 THEN 1 ELSE 2]
  /\ tasks' = [tasks EXCEPT ![t].pc = "done"]
  /\ UNCHANGED <<builderVars, outcome, storage, nextId, result, config, closed,
                 configured, declared, registry>>

NextSaves ==
  \/ \E d \in {x \in DocRefs : docs[x] = NoDoc} :
       \E n \in FieldValues["name"], a \in FieldValues["age"] \cup {NULL} : new(d, n, a)
  \/ \E t \in Tasks, d \in DocRefs, F \in SaveArgs : task_save_call(t, d, F)
  \/ \E t \in Tasks : task_save_apply(t)
  \/ \E t \in Tasks : task_save_resume(t)

SpecSaves == Init /\ [][NextSaves]_vars

\* both tasks have completed a save of d that found no identifier when it
\* started
BothInserted(d) ==
  \A t \in Tasks : /\ tasks[t].pc = "done"
                   /\ tasks[t].call.op = "insert_one"
                   /\ tasks[t].call.on = d

\* C30: for any interleaving of two save() calls on the same document
\* instance whose identifier is absent when both calls start, storage ends
\* with exactly one record for that document and the document's identifier
\* is the identifier of that record.
C30_OneRecordPerDocument ==
  \A d \in DocRefs :
    BothInserted(d) => /\ Len(storage) = 1
                       /\ docs[d][ID] = storage[1][WireId]

\* what the two calls do: each inserts a record of its own, and the document
\* ends with the identifier of one of the two
C30_OneRecordPerCall ==
  \A d \in DocRefs :
    BothInserted(d) =>
      /\ Len(storage) = 2
      /\ {storage[i][WireId] : i \in 1..2} = {tasks[t].call.reply : t \in Tasks}
      /\ storage[1][WireId] # storage[2][WireId]
      /\ docs[d][ID] \in {tasks[t].call.reply : t \in Tasks}

\* both interleaved saves are done and the document carries the identifier
\* of the record inserted first
C30_FirstIdReached ==
  /\ BothInserted("d1")
  /\ Len(storage) = 2
  /\ docs["d1"][ID] = storage[1][WireId]

\* a save started after the other had returned replaced the record in place
C30_SequentialReached ==
  /\ tasks["t1"].pc = "done" /\ tasks["t1"].call.op = "insert_one"
  /\ tasks["t2"].pc = "done" /\ tasks["t2"].call.op = "replace_one"
  /\ Len(storage) = 1 /\ docs["d1"][ID] = storage[1][WireId]

====
